---- MODULE Spec2Model ----
(***************************************************************************)
(* A model of runway's upload path: the cookie-scheme client's CSRF retry  *)
(* (roblox_api/legacy.rs), the key-scheme client's submit/poll protocol    *)
(* (roblox_api/open_cloud.rs), the remote upload backend and the retry     *)
(* decorator (sync_backend.rs), the client factory and the backing-id      *)
(* resolver (roblox_api/mod.rs), the commands (commands/*.rs, main.rs) and *)
(* the manifest store (data/manifest.rs).                                  *)
(*                                                                         *)
(* Each component has its own specification over the shared variables:     *)
(*   SpecRetry   RetryBackend::upload over a wrapped backend               *)
(*   SpecCsrf    concurrent execute_with_csrf_retry calls on one client    *)
(*   SpecUpload  RobloxSyncBackend::upload over either client variant      *)
(*   SpecClient  get_preferred_client on arbitrary credentials, and        *)
(*               download_image on the client it returns                   *)
(*   SpecCommand the process: main, run and the commands                   *)
(*   SpecManifest Manifest::write_to_folder and read_from_folder           *)
(*   SpecResolver resolve_web_asset_id over XML event streams              *)
(* A specification leaves the variables of the other components at their   *)
(* initial values.                                                         *)
(***************************************************************************)
EXTENDS Integers, Sequences, FiniteSets, TLC

VARIABLES
    \* RetryBackend (sync_backend.rs)
    max_retries,    \* the max_retries argument of RetryBackend::new
    attempts,       \* RetryBackend.attempts
    delay,          \* RetryBackend.delay, in milliseconds
    index,          \* the loop variable of RetryBackend::upload
    r_pc,           \* position inside RetryBackend::upload
    r_events,       \* what the call did so far: sleeps and wrapped uploads
    r_result,       \* the value RetryBackend::upload returned

    \* LegacyClient (roblox_api/legacy.rs)
    cred_token,     \* credentials.token
    csrf_token,     \* the value inside LegacyClient.csrf_token
    lock_writer,    \* the call holding the RwLock's write guard
    c_pc,           \* per call: position inside execute_with_csrf_retry
    c_request,      \* per call: the request being built
    c_sent,         \* per call: the requests executed, in order
    c_resp,         \* per call: the responses received, in order
    c_result,       \* per call: the value execute_with_csrf_retry returned
    c_calls,        \* per call slot: calls started so far

    \* RobloxSyncBackend over a client (sync_backend.rs, open_cloud.rs)
    u_kind,         \* which client variant the backend wraps
    u_pc,           \* position inside RobloxSyncBackend::upload
    u_create,       \* what create_with_contents answered
    u_body,         \* what reading the upload response's body gave
    retry_count,    \* upload_image_inner's retry_count
    u_polls,        \* the answers of assets.get so far, in order
    u_sleeps,       \* the sleeps of the poll loop, in milliseconds
    u_client,       \* the Result of the client's upload_image
    u_result,       \* the Result of RobloxSyncBackend::upload
    resolve_calls,  \* the ids resolve_web_asset_id was called with

    \* Commands and the client factory (commands/*.rs, roblox_api/mod.rs)
    k_cmd,          \* the command being run
    k_opts,         \* the parsed options and what get_auth_cookie finds
    k_creds,        \* the RobloxCredentials handed to get_preferred_client
    k_pc,           \* position inside the command
    k_selected,     \* the client variant whose constructor was called
    k_client,       \* the Result of get_preferred_client
    k_net,          \* the calls that went to the network so far, in order
    manifest,       \* Manifest.inputs: the uploaded id of every input
    uploaded_inputs,\* create_cache_map: id -> contributing inputs
    k_todo,         \* create_cache_map: ids the second loop has yet to visit
    k_index,        \* create_cache_map: the index built so far
    k_dirs,         \* the directories created
    k_files,        \* the files the command wrote, other than the index file
    k_index_file,   \* the content of the index file
    k_result,       \* the Result the command returned
    k_exit,         \* the exit of the process, once it has exited

    \* The manifest store (data/manifest.rs)
    m_file,         \* the manifest file of the folder
    m_old,          \* the manifest file as the run found it
    m_arg,          \* the Manifest handed to write_to_folder
    m_pc,           \* position inside the run
    m_result,       \* the Result of the last read_from_folder or write_to_folder

    \* resolve_web_asset_id (roblox_api/mod.rs)
    x_id,           \* the asset_id argument
    x_events,       \* what parser.next() yields for the response, in order
    x_pos,          \* how many events the parser has yielded
    x_pc,           \* position inside resolve_web_asset_id
    x_result        \* the Result resolve_web_asset_id returned

retry_vars  == <<max_retries, attempts, delay, index, r_pc, r_events, r_result>>
csrf_vars   == <<cred_token, csrf_token, lock_writer, c_pc, c_request, c_sent,
                 c_resp, c_result, c_calls>>
upload_vars == <<u_kind, u_pc, u_create, u_body, retry_count, u_polls, u_sleeps,
                 u_client, u_result, resolve_calls>>
cmd_vars    == <<k_cmd, k_opts, k_creds, k_pc, k_selected, k_client, k_net,
                 manifest, uploaded_inputs, k_todo, k_index, k_dirs, k_files,
                 k_index_file, k_result, k_exit>>
store_vars  == <<m_file, m_old, m_arg, m_pc, m_result>>
resolver_vars == <<x_id, x_events, x_pos, x_pc, x_result>>
rest_vars   == <<store_vars, resolver_vars>>
vars == <<retry_vars, csrf_vars, upload_vars, cmd_vars, rest_vars>>

(***************************************************************************)
(* Values                                                                  *)
(***************************************************************************)

\* Option<T>
None == [some |-> FALSE]
Some(v) == [some |-> TRUE, v |-> v]

\* anyhow::Result<T>; an error keeps the concrete type it was made from,
\* which is what Error::is / Error::downcast look at.
Ok(v) == [ok |-> TRUE, val |-> v]
Err(e) == [ok |-> FALSE, err |-> e]
NoResult == [ok |-> FALSE, err |-> [type |-> "none"]]

\* sync_backend::Error
NoneBackend == [type |-> "sync_backend::Error", kind |-> "NoneBackend"]
RateLimited == [type |-> "sync_backend::Error", kind |-> "RateLimited"]
IoError     == [type |-> "sync_backend::Error", kind |-> "Io"]

\* sync_backend::UploadResponse { id: AssetId::Id(n) }
SyncUploadResponse(n) == [id |-> n]

(***************************************************************************)
(* Bounds                                                                  *)
(***************************************************************************)
MaxRetriesBound == 3    \* max_retries ranges over 0..MaxRetriesBound
MaxDelay == 2           \* delay ranges over 1..MaxDelay milliseconds
MaxCalls == 2           \* calls of execute_with_csrf_retry per task

(***************************************************************************)
(* RetryBackend                                                            *)
(***************************************************************************)

\* What a wrapped backend can answer to one upload.
InnerResults ==
    {Ok(SyncUploadResponse(10)), Ok(SyncUploadResponse(11)),
     Err(RateLimited), Err(NoneBackend), Err(IoError)}

RetryNewOffByOne(n, d) ==
    [delay |-> d, attempts |-> n]

\* RetryBackend::new
RetryBackendNew(n, d) ==
    [delay |-> d, attempts |-> n + 1]

SleepEvent(d) == [ev |-> "sleep", ms |-> d, res |-> NoResult]
UploadEvent(res) == [ev |-> "upload", ms |-> 0, res |-> res]

InitRetry ==
    /\ max_retries \in 0..MaxRetriesBound
    /\ delay \in 1..MaxDelay
    /\ attempts = RetryBackendNew(max_retries, delay).attempts
    /\ index = 0
    /\ r_pc = "for"
    /\ r_events = <<>>
    /\ r_result = NoResult

\* for index in 0..self.attempts: the loop is entered
RetryIterate ==
    /\ r_pc = "for"
    /\ index < attempts
    /\ r_pc' = IF index # 0 THEN "sleep" ELSE "upload"
    /\ UNCHANGED <<max_retries, attempts, delay, index, r_events, r_result>>
    /\ UNCHANGED <<csrf_vars, upload_vars, cmd_vars, rest_vars>>

\* The sleep, had its length grown with the attempt number.
RetrySleepGrowing ==
    /\ r_pc = "sleep"
    /\ r_events' = Append(r_events, SleepEvent(delay * index))
    /\ r_pc' = "upload"
    /\ UNCHANGED <<max_retries, attempts, delay, index, r_result>>
    /\ UNCHANGED <<csrf_vars, upload_vars, cmd_vars, rest_vars>>

\* thread::sleep(self.delay)
RetrySleep ==
    /\ r_pc = "sleep"
    /\ r_events' = Append(r_events, SleepEvent(delay))
    /\ r_pc' = "upload"
    /\ UNCHANGED <<max_retries, attempts, delay, index, r_result>>
    /\ UNCHANGED <<csrf_vars, upload_vars, cmd_vars, rest_vars>>

RetryInnerUploadNoReturn ==
    /\ r_pc = "upload"
    /\ \E res \in InnerResults :
        /\ r_events' = Append(r_events, UploadEvent(res))
        /\ index' = index + 1
        /\ r_pc' = "for"
        /\ r_result' = r_result
    /\ UNCHANGED <<max_retries, attempts, delay>>
    /\ UNCHANGED <<csrf_vars, upload_vars, cmd_vars, rest_vars>>

\* let result = self.inner.upload(..).await; if let Ok(response) = result
\* { return Ok(response) }
RetryInnerUpload ==
    /\ r_pc = "upload"
    /\ \E res \in InnerResults :
        /\ r_events' = Append(r_events, UploadEvent(res))
        /\ IF res.ok
             THEN /\ r_result' = res
                  /\ r_pc' = "return"
                  /\ index' = index
             ELSE /\ index' = index + 1
                  /\ r_pc' = "for"
                  /\ r_result' = r_result
    /\ UNCHANGED <<max_retries, attempts, delay>>
    /\ UNCHANGED <<csrf_vars, upload_vars, cmd_vars, rest_vars>>

\* the loop ran out: Err(Error::RateLimited.into())
RetryExhausted ==
    /\ r_pc = "for"
    /\ index >= attempts
    /\ r_result' = Err(RateLimited)
    /\ r_pc' = "return"
    /\ UNCHANGED <<max_retries, attempts, delay, index, r_events>>
    /\ UNCHANGED <<csrf_vars, upload_vars, cmd_vars, rest_vars>>

RetryUpload ==
    \/ RetryIterate
    \/ RetrySleep
    \/ RetryInnerUpload
    \/ RetryExhausted

(***************************************************************************)
(* LegacyClient: execute_with_csrf_retry and attach_headers                *)
(***************************************************************************)

\* The calls of execute_with_csrf_retry that may run concurrently on one
\* client (one per task sharing the client).
Calls == {"c1", "c2"}

\* X-CSRF-Token values a server sends; StartToken is what get_csrf_token
\* fetched at construction.
Tokens == {"t1", "t2"}
StartToken == "t0"

\* What reqwest's Client::execute yields: a response (its status and its
\* X-CSRF-Token header), or status 0 for a transport error (no response).
Responses == [status : {200, 403, 429}, csrf : {None} \cup {Some(t) : t \in Tokens}]
TransportFailure == [status |-> 0, csrf |-> None]
HttpError == [type |-> "reqwest::Error", kind |-> "Http"]

\* make_request(&self.client): a request without cookie or token header.
\* (The closures of download_image and upload_image_raw build a fixed URL.)
MakeRequest == [cookie |-> None, csrf |-> None]

\* LegacyClient::new: the token cell after construction. get_csrf_token may
\* fail, and is not asked without a session token.
NewCsrfTokens(token) ==
    IF token.some THEN {Some(StartToken), None} ELSE {None}

InitCsrf ==
    /\ cred_token \in {None, Some("cookie")}
    /\ csrf_token \in NewCsrfTokens(cred_token)
    /\ lock_writer = None
    /\ c_pc = [c \in Calls |-> "idle"]
    /\ c_request = [c \in Calls |-> MakeRequest]
    /\ c_sent = [c \in Calls |-> <<>>]
    /\ c_resp = [c \in Calls |-> <<>>]
    /\ c_result = [c \in Calls |-> NoResult]
    /\ c_calls = [c \in Calls |-> 0]

\* let mut request = make_request(&self.client)?
BeginExecute(c) ==
    /\ c_pc[c] \in {"idle", "done"}
    /\ c_calls[c] < MaxCalls
    /\ c_calls' = [c_calls EXCEPT ![c] = @ + 1]
    /\ c_request' = [c_request EXCEPT ![c] = MakeRequest]
    /\ c_sent' = [c_sent EXCEPT ![c] = <<>>]
    /\ c_resp' = [c_resp EXCEPT ![c] = <<>>]
    /\ c_result' = [c_result EXCEPT ![c] = NoResult]
    /\ c_pc' = [c_pc EXCEPT ![c] = "attach"]
    /\ UNCHANGED <<cred_token, csrf_token, lock_writer>>
    /\ UNCHANGED <<retry_vars, upload_vars, cmd_vars, rest_vars>>

\* tokio's RwLock::read completes only while no write guard is alive.
CanRead == lock_writer = None

\* RwLock::write completes only while no guard is alive; a read guard lives
\* inside one AttachHeaders step only.
CanWrite == lock_writer = None

\* attach_headers, had it left the cached token out.
WithHeadersCookieOnly(request) ==
    [cookie |-> IF cred_token.some THEN cred_token ELSE request.cookie,
     csrf |-> request.csrf]

\* attach_headers: the cookie header when a session token is configured, the
\* X-CSRF-Token header when a token is cached.
WithHeaders(request) ==
    [cookie |-> IF cred_token.some THEN cred_token ELSE request.cookie,
     csrf |-> IF csrf_token.some THEN csrf_token ELSE request.csrf]

\* self.attach_headers(&mut request).await, before the first request and
\* before the retried one.
AttachHeaders(c) ==
    /\ c_pc[c] \in {"attach", "attach_retry"}
    /\ CanRead
    /\ c_request' = [c_request EXCEPT ![c] = WithHeaders(c_request[c])]
    /\ c_pc' = [c_pc EXCEPT ![c] =
                    IF c_pc[c] = "attach" THEN "execute" ELSE "execute_retry"]
    /\ UNCHANGED <<cred_token, csrf_token, lock_writer, c_sent, c_resp,
                   c_result, c_calls>>
    /\ UNCHANGED <<retry_vars, upload_vars, cmd_vars, rest_vars>>

\* Leaving execute_with_csrf_retry drops the write guard the call holds.
AfterReturn(c) == IF lock_writer = Some(c) THEN None ELSE lock_writer

\* self.client.execute(request)?: the first request, whose response is then
\* matched, and the retried request, whose response is returned.
ClientExecute(c) ==
    /\ c_pc[c] \in {"execute", "execute_retry"}
    /\ c_sent' = [c_sent EXCEPT ![c] = Append(@, c_request[c])]
    /\ \E out \in Responses \cup {TransportFailure} :
        IF out = TransportFailure
          THEN /\ c_result' = [c_result EXCEPT ![c] = Err(HttpError)]
               /\ c_pc' = [c_pc EXCEPT ![c] = "done"]
               /\ lock_writer' = AfterReturn(c)
               /\ c_resp' = c_resp
          ELSE /\ c_resp' = [c_resp EXCEPT ![c] = Append(@, out)]
               /\ IF c_pc[c] = "execute"
                    THEN /\ c_pc' = [c_pc EXCEPT ![c] = "match"]
                         /\ UNCHANGED <<c_result, lock_writer>>
                    ELSE /\ c_result' = [c_result EXCEPT ![c] = Ok(out)]
                         /\ c_pc' = [c_pc EXCEPT ![c] = "done"]
                         /\ lock_writer' = AfterReturn(c)
    /\ UNCHANGED <<cred_token, csrf_token, c_request, c_calls>>
    /\ UNCHANGED <<retry_vars, upload_vars, cmd_vars, rest_vars>>

NeedsCsrfRetryAny403(response) ==
    response.status = 403

\* StatusCode::FORBIDDEN with an X-CSRF-Token header
NeedsCsrfRetry(response) ==
    response.status = 403 /\ response.csrf.some

\* match response.status(): the arms that return the first response, and the
\* decision to refresh the token.
MatchStatus(c) ==
    /\ c_pc[c] = "match"
    /\ IF NeedsCsrfRetry(c_resp[c][1])
         THEN /\ c_pc' = [c_pc EXCEPT ![c] = "write"]
              /\ c_result' = c_result
         ELSE /\ c_result' = [c_result EXCEPT ![c] = Ok(c_resp[c][1])]
              /\ c_pc' = [c_pc EXCEPT ![c] = "done"]
    /\ UNCHANGED <<cred_token, csrf_token, lock_writer, c_request, c_sent,
                   c_resp, c_calls>>
    /\ UNCHANGED <<retry_vars, upload_vars, cmd_vars, rest_vars>>

\* let mut csrf_token = self.csrf_token.write().await;
\* *csrf_token = Some(csrf.clone());
\* let mut new_request = make_request(&self.client)?;
\* The write guard stays alive until the end of the block.
WriteCsrfToken(c) ==
    /\ c_pc[c] = "write"
    /\ CanWrite
    /\ lock_writer' = Some(c)
    /\ csrf_token' = c_resp[c][1].csrf
    /\ c_request' = [c_request EXCEPT ![c] = MakeRequest]
    /\ c_pc' = [c_pc EXCEPT ![c] = "attach_retry"]
    /\ UNCHANGED <<cred_token, c_sent, c_resp, c_result, c_calls>>
    /\ UNCHANGED <<retry_vars, upload_vars, cmd_vars, rest_vars>>

\* One step of a running call.
ExecuteStep(c) ==
    \/ AttachHeaders(c)
    \/ ClientExecute(c)
    \/ MatchStatus(c)
    \/ WriteCsrfToken(c)

(***************************************************************************)
(* RobloxApiError, RbxCloudError and the client's UploadResponse           *)
(***************************************************************************)
ApiError(message) ==
    [type |-> "RobloxApiError", kind |-> "ApiError", message |-> message]
BadResponseJson(body) ==
    [type |-> "RobloxApiError", kind |-> "BadResponseJson", body |-> body]
ResponseError(status, body) ==
    [type |-> "RobloxApiError", kind |-> "ResponseError", status |-> status,
     body |-> body]
AssetGetFailed == [type |-> "RobloxApiError", kind |-> "AssetGetFailed"]
MissingOperationPath ==
    [type |-> "RobloxApiError", kind |-> "MissingOperationPath"]
RbxCloudWrapped(value) ==
    [type |-> "RobloxApiError", kind |-> "RbxCloud", source |-> value]

\* rbxcloud's error type: an HTTP status error, or anything else.
HttpStatusError(code, msg) ==
    [type |-> "RbxCloudError", kind |-> "HttpStatusError", code |-> code,
     msg |-> msg]
RbxReqwestError == [type |-> "RbxCloudError", kind |-> "ReqwestError"]

\* roblox_api::UploadResponse
ApiUploadResponse(asset_id, backing_asset_id) ==
    [asset_id |-> asset_id, backing_asset_id |-> backing_asset_id]

\* A panic (unwrap on None): the panic hook ends the process.
Panicked == [type |-> "panic"]

(***************************************************************************)
(* LegacyClient::upload_image                                              *)
(***************************************************************************)

\* Response bodies of the upload endpoint. A body is text; json tells
\* whether it is JSON of RawUploadResponse's shape, and the other fields are
\* what that JSON holds.
RawBody(success, message, asset_id, backing_asset_id) ==
    [json |-> TRUE, success |-> success, message |-> message,
     asset_id |-> asset_id, backing_asset_id |-> backing_asset_id]
NotJsonBody == [json |-> FALSE, text |-> "<html>"]
Bodies ==
    {RawBody(TRUE, None, Some(5), Some(6)),
     RawBody(TRUE, None, None, None),
     RawBody(FALSE, Some("moderated"), None, None),
     RawBody(FALSE, None, None, None),
     NotJsonBody}

\* serde_json::from_str::<RawUploadResponse>(&body)
ParseRawUploadResponse(body) ==
    IF body.json
      THEN Ok([success |-> body.success, message |-> body.message,
               asset_id |-> body.asset_id,
               backing_asset_id |-> body.backing_asset_id])
      ELSE Err(BadResponseJson(body))

\* StatusCode::is_success
IsSuccess(status) == status >= 200 /\ status <= 299

\* upload_image_raw, from the response execute_with_csrf_retry returned and
\* its body: the status is looked at first, then the body is parsed.
UploadImageRaw(status, body) ==
    IF IsSuccess(status)
      THEN ParseRawUploadResponse(body)
      ELSE Err(ResponseError(status, body))

\* upload_image, had it answered the backing id as the public id as well.
LegacyUploadImageBackingOnly(raw) ==
    IF ~raw.ok THEN raw
    ELSE IF raw.val.success
      THEN IF raw.val.asset_id.some /\ raw.val.backing_asset_id.some
             THEN Ok(ApiUploadResponse(raw.val.backing_asset_id.v,
                                       raw.val.backing_asset_id.v))
             ELSE Err(Panicked)
      ELSE IF raw.val.message.some
             THEN Err(ApiError(raw.val.message.v))
             ELSE Err(Panicked)

\* upload_image, from upload_image_raw's result.
LegacyUploadImage(raw) ==
    IF ~raw.ok THEN raw
    ELSE IF raw.val.success
      THEN IF raw.val.asset_id.some /\ raw.val.backing_asset_id.some
             THEN Ok(ApiUploadResponse(raw.val.asset_id.v,
                                       raw.val.backing_asset_id.v))
             ELSE Err(Panicked)
      ELSE IF raw.val.message.some
             THEN Err(ApiError(raw.val.message.v))
             ELSE Err(Panicked)

(***************************************************************************)
(* OpenCloudClient::upload_image_inner                                     *)
(***************************************************************************)
MAX_RETRIES == 5
INITIAL_SLEEP_DURATION == 50
BACKOFF == 2

\* u32::pow (the values stay far below 2^32: retry_count <= 6)
RECURSIVE Pow(_, _)
Pow(b, e) == IF e = 0 THEN 1 ELSE b * Pow(b, e - 1)

\* From<RbxCloudError> for RobloxApiError. StatusCode::from_u16 accepts
\* 100..=999 and the default status is 200.
FromRbxCloudError(value) ==
    IF value.kind = "HttpStatusError"
      THEN ResponseError(IF value.code >= 100 /\ value.code <= 999
                           THEN value.code ELSE 200,
                         value.msg)
      ELSE RbxCloudWrapped(value)

\* The ? operator on a Result<_, RbxCloudError> inside a function returning
\* anyhow::Result: anyhow::Error::from keeps the RbxCloudError as the
\* error's concrete type (From<RbxCloudError> for RobloxApiError is not the
\* conversion ? selects).
QuestionMark(value) == value

\* Operation paths, as the marker they start with and the rest.
OperationsPrefix == "operations/"
Paths == {<<"operations/", "op1">>, <<"assets/", "op1">>, <<>>}

\* str::strip_prefix
StripPrefix(path, prefix) ==
    IF Len(path) >= 1 /\ path[1] = prefix THEN Some(Tail(path)) ELSE None

\* What create_with_contents answers.
CreateAnswers ==
    {Err(HttpStatusError(429, "slow down")), Err(HttpStatusError(400, "bad")),
     Err(RbxReqwestError)}
    \cup {Ok([path |-> None])}
    \cup {Ok([path |-> Some(p)]) : p \in Paths}

\* The asset ids a completed operation carries, as strings of characters.
IdStrings == {<<"7">>, <<"4", "2">>, <<"+", "3">>, <<"x">>, <<"1", "x">>, <<>>}

Digit(ch) ==
    CASE ch = "0" -> 0 [] ch = "1" -> 1 [] ch = "2" -> 2 [] ch = "3" -> 3
      [] ch = "4" -> 4 [] ch = "5" -> 5 [] ch = "6" -> 6 [] ch = "7" -> 7
      [] ch = "8" -> 8 [] ch = "9" -> 9 [] OTHER -> -1

RECURSIVE DigitsValue(_, _)
DigitsValue(str, acc) ==
    IF str = <<>> THEN acc
    ELSE IF acc < 0 \/ Digit(Head(str)) < 0 THEN -1
    ELSE DigitsValue(Tail(str), acc * 10 + Digit(Head(str)))

\* A parse that stops at the first character that is not a digit.
RECURSIVE LeadingDigits(_)
LeadingDigits(str) ==
    IF str = <<>> \/ Digit(Head(str)) < 0 THEN <<>>
    ELSE <<Head(str)>> \o LeadingDigits(Tail(str))

ParseU64Lenient(str) ==
    LET digits == LeadingDigits(IF str # <<>> /\ Head(str) = "+"
                                  THEN Tail(str) ELSE str)
    IN IF digits = <<>> THEN Err(AssetGetFailed)
       ELSE Ok(DigitsValue(digits, 0))

\* str::parse::<u64>: decimal digits after an optional "+", at least one
\* digit. (The strings of IdStrings are too short to overflow a u64.)
ParseU64(str) ==
    LET digits == IF str # <<>> /\ Head(str) = "+" THEN Tail(str) ELSE str
        value == DigitsValue(digits, 0)
    IN IF digits = <<>> \/ value < 0 THEN Err(AssetGetFailed) ELSE Ok(value)

\* What assets.get answers to one poll.
Pending == [kind |-> "pending"]
Completed(asset_id) == [kind |-> "completed", asset_id |-> asset_id]
PollFailed(e) == [kind |-> "error", err |-> e]
PollAnswers ==
    {Pending} \cup {Completed(str) : str \in IdStrings}
    \cup {PollFailed(HttpStatusError(429, "slow down")), PollFailed(RbxReqwestError)}

SleepDurationLinear(count) == INITIAL_SLEEP_DURATION * count * BACKOFF

\* INITIAL_SLEEP_DURATION * retry_count.pow(BACKOFF)
SleepDuration(count) == INITIAL_SLEEP_DURATION * Pow(count, BACKOFF)

(***************************************************************************)
(* RobloxSyncBackend::upload                                               *)
(***************************************************************************)
Uploader == "c1"    \* the call slot upload_image_raw's request runs in

InitUpload ==
    /\ u_kind \in {"Legacy", "OpenCloud"}
    /\ u_pc = "upload"
    /\ u_create = NoResult
    /\ u_body = NoResult
    /\ retry_count = 0
    /\ u_polls = <<>>
    /\ u_sleeps = <<>>
    /\ u_client = NoResult
    /\ u_result = NoResult
    /\ resolve_calls = <<>>

\* self.api_client.upload_image(..) on the cookie-scheme client:
\* upload_image_raw starts execute_with_csrf_retry.
UploadLegacy ==
    /\ u_pc = "upload"
    /\ u_kind = "Legacy"
    /\ u_pc' = "raw_execute"
    /\ c_pc[Uploader] = "idle"
    /\ c_calls' = [c_calls EXCEPT ![Uploader] = @ + 1]
    /\ c_request' = [c_request EXCEPT ![Uploader] = MakeRequest]
    /\ c_pc' = [c_pc EXCEPT ![Uploader] = "attach"]
    /\ UNCHANGED <<cred_token, csrf_token, lock_writer, c_sent, c_resp, c_result>>
    /\ UNCHANGED <<u_kind, u_create, u_body, retry_count, u_polls, u_sleeps,
                   u_client, u_result,
                   resolve_calls>>
    /\ UNCHANGED <<retry_vars, cmd_vars, rest_vars>>

\* upload_image_raw after execute_with_csrf_retry returned, and upload_image
\* on its result: ? on a transport error, response.text()?, the status and
\* the body; a panic ends the process.
UploadLegacyResponse ==
    /\ u_pc = "raw_execute"
    /\ c_pc[Uploader] = "done"
    /\ IF ~c_result[Uploader].ok
         THEN /\ u_client' = c_result[Uploader]
              /\ u_body' = u_body
         ELSE \E read \in {Ok(b) : b \in Bodies} \cup {Err(HttpError)} :
                /\ u_body' = read
                /\ u_client' =
                     IF read.ok
                       THEN LegacyUploadImage(
                              UploadImageRaw(c_result[Uploader].val.status, read.val))
                       ELSE read
    /\ u_pc' = IF u_client'.ok \/ u_client'.err # Panicked THEN "match" ELSE "panicked"
    /\ UNCHANGED <<u_kind, u_create, retry_count, u_polls, u_sleeps, u_result,
                   resolve_calls>>
    /\ UNCHANGED <<retry_vars, csrf_vars, cmd_vars, rest_vars>>

\* upload_image_inner up to the poll loop: create_with_contents(..).await?,
\* response.path, strip_prefix("operations/").
UploadOpenCloud ==
    /\ u_pc = "upload"
    /\ u_kind = "OpenCloud"
    /\ \E answer \in CreateAnswers :
        /\ u_create' = answer
        /\ IF ~answer.ok
             THEN /\ u_client' = Err(QuestionMark(answer.err))
                  /\ u_pc' = "match"
           ELSE IF ~answer.val.path.some
             THEN /\ u_client' = Err(MissingOperationPath)
                  /\ u_pc' = "match"
           ELSE IF ~StripPrefix(answer.val.path.v, OperationsPrefix).some
             THEN /\ u_client' = Err(MissingOperationPath)
                  /\ u_pc' = "match"
           ELSE /\ u_client' = u_client
                /\ u_pc' = "poll"
    /\ retry_count' = 0
    /\ UNCHANGED <<u_kind, u_body, u_polls, u_sleeps, u_result,
                   resolve_calls>>
    /\ UNCHANGED <<retry_vars, csrf_vars, cmd_vars, rest_vars>>

\* The budget test, had it allowed one more retry.
BudgetSpentLate(count) == count > MAX_RETRIES + 1

\* if retry_count > MAX_RETRIES
BudgetSpent(count) == count > MAX_RETRIES

\* One turn of the poll loop up to its sleep: self.assets.get(..).await?,
\* the pending branch with its retry budget, the parse of the asset id.
PollOperation ==
    /\ u_pc = "poll"
    /\ \E answer \in PollAnswers :
        /\ u_polls' = Append(u_polls, answer)
        /\ IF answer.kind = "error"
             THEN /\ u_client' = Err(QuestionMark(answer.err))
                  /\ u_pc' = "match"
                  /\ retry_count' = retry_count
           ELSE IF answer.kind = "pending"
             THEN IF BudgetSpent(retry_count)
                    THEN /\ u_client' = Err(AssetGetFailed)
                         /\ u_pc' = "match"
                         /\ retry_count' = retry_count
                    ELSE /\ retry_count' = retry_count + 1
                         /\ u_pc' = "sleep"
                         /\ u_client' = u_client
           ELSE /\ u_client' =
                     IF ParseU64(answer.asset_id).ok
                       THEN Ok(ApiUploadResponse(ParseU64(answer.asset_id).val,
                                                 ParseU64(answer.asset_id).val))
                       ELSE Err(AssetGetFailed)
                /\ u_pc' = "match"
                /\ retry_count' = retry_count
    /\ UNCHANGED <<u_kind, u_create, u_body, u_sleeps, u_result,
                   resolve_calls>>
    /\ UNCHANGED <<retry_vars, csrf_vars, cmd_vars, rest_vars>>

\* std::thread::sleep(INITIAL_SLEEP_DURATION * retry_count.pow(BACKOFF));
\* continue
PollSleep ==
    /\ u_pc = "sleep"
    /\ u_sleeps' = Append(u_sleeps, SleepDuration(retry_count))
    /\ u_pc' = "poll"
    /\ UNCHANGED <<u_kind, u_create, u_body, retry_count, u_polls, u_client,
                   u_result,
                   resolve_calls>>
    /\ UNCHANGED <<retry_vars, csrf_vars, cmd_vars, rest_vars>>

SyncResultAnyResponseError(result) ==
    IF result.ok
      THEN Ok(SyncUploadResponse(result.val.backing_asset_id))
    ELSE IF result.err.type = "RobloxApiError" /\ result.err.kind = "ResponseError"
      THEN Err(RateLimited)
    ELSE Err(result.err)

\* match result: the response's backing id on success; for an error that
\* is a RobloxApiError, RateLimited when it is ResponseError with status
\* 429 and the error itself otherwise; any other error as it is.
SyncResult(result) ==
    IF result.ok
      THEN Ok(SyncUploadResponse(result.val.backing_asset_id))
    ELSE IF result.err.type = "RobloxApiError"
      THEN IF result.err.kind = "ResponseError" /\ result.err.status = 429
             THEN Err(RateLimited)
             ELSE Err(result.err)
    ELSE Err(result.err)

\* RobloxSyncBackend::upload returns.
UploadMatch ==
    /\ u_pc = "match"
    /\ u_result' = SyncResult(u_client)
    /\ u_pc' = "done"
    /\ UNCHANGED <<u_kind, u_create, u_body, retry_count, u_polls, u_sleeps,
                   u_client,
                   resolve_calls>>
    /\ UNCHANGED <<retry_vars, csrf_vars, cmd_vars, rest_vars>>

(***************************************************************************)
(* RobloxCredentials and get_preferred_client                              *)
(***************************************************************************)
MaxCreatorId == 2       \* user_id and group_id range over 1..MaxCreatorId

MissingAuth == [type |-> "RobloxApiError", kind |-> "MissingAuth"]

\* RobloxCredentials { token, api_key, user_id, group_id }
RobloxCredentials(token, api_key, user_id, group_id) ==
    [token |-> token, api_key |-> api_key, user_id |-> user_id,
     group_id |-> group_id]

\* Every credentials value a caller can build: the constructor checks
\* nothing.
AllCredentials ==
    {RobloxCredentials(t, k, u, g) :
        t \in {None, Some("auth"), Some("cookie")},
        k \in {None, Some("key")},
        u \in {None} \cup {Some(i) : i \in 1..MaxCreatorId},
        g \in {None} \cup {Some(i) : i \in 1..MaxCreatorId}}

\* u64::to_string: the decimal digits, most significant first.
DecimalDigits == <<"0", "1", "2", "3", "4", "5", "6", "7", "8", "9">>
RECURSIVE U64ToString(_)
U64ToString(n) ==
    IF n < 10 THEN <<DecimalDigits[n + 1]>>
    ELSE Append(U64ToString(n \div 10), DecimalDigits[(n % 10) + 1])

\* OpenCloudClient::new: the creator is matched before the key is looked at;
\* unreachable!() panics.
OpenCloudClientNew(credentials) ==
    IF credentials.group_id.some /\ ~credentials.user_id.some
      THEN IF credentials.api_key.some
             THEN Ok([variant |-> "OpenCloud",
                      creator |-> [kind |-> "Group",
                                   id |-> U64ToString(credentials.group_id.v)],
                      credentials |-> credentials])
             ELSE Err(MissingAuth)
    ELSE IF ~credentials.group_id.some /\ credentials.user_id.some
      THEN IF credentials.api_key.some
             THEN Ok([variant |-> "OpenCloud",
                      creator |-> [kind |-> "User",
                                   id |-> U64ToString(credentials.user_id.v)],
                      credentials |-> credentials])
             ELSE Err(MissingAuth)
    ELSE Err(Panicked)

\* LegacyClient::new never fails; cell is the token cell get_csrf_token's
\* answer leaves (one of NewCsrfTokens(credentials.token)).
LegacyClientNew(credentials, cell) ==
    Ok([variant |-> "Legacy", credentials |-> credentials, csrf_token |-> cell])

\* The arm of get_preferred_client's match that credentials take, first arm
\* first. Two variations: one that looks at the token before the key, one
\* that lets credentials without token and key through to the last arm.
PreferredVariantTokenFirst(credentials) ==
    IF ~credentials.token.some /\ ~credentials.api_key.some THEN "none"
    ELSE IF credentials.token.some THEN "Legacy"
    ELSE "OpenCloud"

PreferredVariantNoAuthCheck(credentials) ==
    IF credentials.api_key.some THEN "OpenCloud"
    ELSE "Legacy"

PreferredVariant(credentials) ==
    IF ~credentials.token.some /\ ~credentials.api_key.some THEN "none"
    ELSE IF credentials.api_key.some THEN "OpenCloud"
    ELSE "Legacy"

\* get_preferred_client(credentials)
GetPreferredClient(credentials, cell) ==
    CASE PreferredVariant(credentials) = "none" -> Err(MissingAuth)
      [] PreferredVariant(credentials) = "OpenCloud" ->
             OpenCloudClientNew(credentials)
      [] PreferredVariant(credentials) = "Legacy" ->
             LegacyClientNew(credentials, cell)

\* A request the process sends over the network.
CsrfTokenRequest == [req |-> "get_csrf_token"]
DownloadRequest(id) == [req |-> "download_image", id |-> id]

\* let api_client = get_preferred_client(credentials)?  The cookie-scheme
\* constructor asks the server for a CSRF token when it has a session token;
\* a panic ends the process, an error ends the command.
GetClient ==
    /\ k_pc = "get_client"
    /\ k_selected' = PreferredVariant(k_creds)
    /\ \E cell \in NewCsrfTokens(k_creds.token) :
         /\ k_client' = GetPreferredClient(k_creds, cell)
         /\ IF k_selected' = "Legacy"
              THEN /\ cred_token' = k_creds.token
                   /\ csrf_token' = cell
                   /\ k_net' = IF k_creds.token.some
                                 THEN Append(k_net, CsrfTokenRequest)
                                 ELSE k_net
              ELSE UNCHANGED <<cred_token, csrf_token, k_net>>
    /\ k_pc' = IF k_client'.ok THEN "client"
               ELSE IF k_client'.err = Panicked THEN "panicked"
               ELSE "done"
    /\ k_result' = IF k_client'.ok \/ k_client'.err = Panicked
                     THEN k_result ELSE k_client'
    /\ UNCHANGED <<lock_writer, c_pc, c_request, c_sent, c_resp, c_result,
                   c_calls>>
    /\ UNCHANGED <<k_exit, k_cmd, k_opts, k_creds, manifest, uploaded_inputs, k_todo,
                   k_index, k_dirs, k_files, k_index_file>>
    /\ UNCHANGED <<retry_vars, upload_vars, rest_vars>>

InitClient ==
    /\ k_cmd = "none"
    /\ k_opts = None
    /\ k_creds \in AllCredentials
    /\ k_pc = "get_client"
    /\ k_selected = "none"
    /\ k_client = NoResult
    /\ k_net = <<>>
    /\ manifest = <<>>
    /\ uploaded_inputs = <<>>
    /\ k_todo = <<>>
    /\ k_index = <<>>
    /\ k_dirs = {}
    /\ k_files = {}
    /\ k_index_file = None
    /\ k_result = NoResult
    /\ k_exit = None

(***************************************************************************)
(* The commands: options and credentials                                   *)
(***************************************************************************)
MaxInputId == 2         \* uploaded ids are IdStep * 1 .. IdStep * MaxInputId

\* The commands that ask get_preferred_client for a client.
ClientCommands == {"upload_image", "download_image", "create_cache_map"}

\* The commands run dispatches.
Commands == ClientCommands \cup {"asset_list", "sync"}

\* The uploaded ids a manifest can hold: multiples of IdStep, so that ids of
\* one and of two decimal digits occur.
IdStep == 7
InputIds == {IdStep * i : i \in 1..MaxInputId}
AssetNames == {"a", "b", "c", "d"}

\* What the command line, the environment and the Studio installation give
\* one run: --auth, --api-key (or TARMAC_API_KEY), --user-id, --group-id,
\* download-image's asset id, and the cookie get_auth_cookie finds.
AllOptions ==
    [auth : {None, Some("auth")},
     api_key : {None, Some("key")},
     user_id : {None, Some(1)},
     group_id : {None, Some(1)},
     asset_id : {None} \cup {Some(id) : id \in InputIds},
     cookie : {None, Some("cookie")}]

\* The option sets clap lets through: auth and api_key conflict; user_id and
\* group_id conflict with each other and with auth and require api_key, and
\* only upload-image has them; download-image requires its asset id.
ClapAccepts(cmd, opts) ==
    /\ ~(opts.auth.some /\ opts.api_key.some)
    /\ opts.asset_id.some <=> (cmd = "download_image")
    /\ IF cmd = "upload_image"
         THEN /\ ~(opts.user_id.some /\ opts.group_id.some)
              /\ (opts.user_id.some \/ opts.group_id.some)
                     => (opts.api_key.some /\ ~opts.auth.some)
         ELSE ~opts.user_id.some /\ ~opts.group_id.some

\* Option::or_else
OrElse(option, other) == IF option.some THEN option ELSE other

\* The RobloxCredentials literal of each command.
CommandCredentials(cmd, opts) ==
    IF cmd = "upload_image"
      THEN RobloxCredentials(OrElse(opts.auth, opts.cookie), opts.api_key,
                             opts.user_id, opts.group_id)
      ELSE RobloxCredentials(OrElse(opts.auth, opts.cookie), None, None, None)

StdIoError == [type |-> "std::io::Error"]
ImageError == [type |-> "image::ImageError"]

\* Manifest.inputs: the uploaded id of each input, if it has one.
Manifests == [AssetNames -> {None} \cup {Some(id) : id \in InputIds}]

\* An index file left at --index-file by an earlier run, over a manifest
\* that is no longer the project's.
OldIndex ==
    [complete |-> TRUE, entries |-> [id \in {IdStep} |-> <<"z">>],
     order |-> <<IdStep>>]

InitCommand ==
    /\ k_cmd \in Commands
    /\ k_opts \in {opts \in AllOptions : ClapAccepts(k_cmd, opts)}
    /\ k_creds = None
    /\ k_pc = "start"
    /\ k_selected = "none"
    /\ k_client = NoResult
    /\ k_net = <<>>
    /\ manifest \in IF k_cmd \in {"create_cache_map", "asset_list", "sync"}
                      THEN Manifests
                      ELSE {[n \in AssetNames |-> None],
                            [n \in AssetNames |-> Some(IdStep)]}
    /\ uploaded_inputs = <<>>
    /\ k_todo = <<>>
    /\ k_index = <<>>
    /\ k_dirs = {}
    /\ k_files = {}
    /\ k_index_file \in IF k_cmd = "create_cache_map"
                          THEN {None, Some(OldIndex)} ELSE {None}
    /\ k_result = NoResult
    /\ k_exit = None

\* The command up to its RobloxCredentials literal. upload_image first reads
\* and encodes the image, each step of which can fail.
BuildCredentials ==
    /\ k_pc = "start"
    /\ k_cmd \in ClientCommands
    /\ \/ /\ k_creds' = CommandCredentials(k_cmd, k_opts)
          /\ k_pc' = "get_client"
          /\ k_result' = k_result
       \/ /\ k_cmd = "upload_image"
          /\ \E e \in {StdIoError, ImageError} : k_result' = Err(e)
          /\ k_pc' = "done"
          /\ k_creds' = k_creds
    /\ UNCHANGED <<k_exit, k_cmd, k_opts, k_selected, k_client, k_net, manifest,
                   uploaded_inputs, k_todo, k_index, k_dirs, k_files,
                   k_index_file>>
    /\ UNCHANGED <<retry_vars, csrf_vars, upload_vars, rest_vars>>

(***************************************************************************)
(* upload_image and download_image (the commands)                          *)
(***************************************************************************)

\* Ok(())
Unit == [unit |-> TRUE]

\* client.upload_image(upload_data): the upload of the client that was
\* built starts.
UploadImageCall ==
    /\ k_pc = "client"
    /\ k_cmd = "upload_image"
    /\ u_pc = "idle"
    /\ u_kind' = k_client.val.variant
    /\ u_pc' = "upload"
    /\ k_pc' = "upload"
    /\ UNCHANGED <<u_create, u_body, retry_count, u_polls, u_sleeps, u_client,
                   u_result, resolve_calls>>
    /\ UNCHANGED <<k_exit, k_cmd, k_opts, k_creds, k_selected, k_client, k_net,
                   manifest, uploaded_inputs, k_todo, k_index, k_dirs, k_files,
                   k_index_file, k_result>>
    /\ UNCHANGED <<retry_vars, csrf_vars, rest_vars>>

\* client.upload_image(upload_data).await? and the rest of upload_image.
UploadImageReturn ==
    /\ k_pc = "upload"
    /\ u_pc \in {"match", "panicked"}
    /\ k_pc' = IF u_pc = "panicked" THEN "panicked" ELSE "done"
    /\ k_result' = IF u_pc = "panicked" THEN k_result
                   ELSE IF u_client.ok THEN Ok(Unit)
                   ELSE u_client
    /\ UNCHANGED <<k_exit, k_cmd, k_opts, k_creds, k_selected, k_client, k_net,
                   manifest, uploaded_inputs, k_todo, k_index, k_dirs, k_files,
                   k_index_file>>
    /\ UNCHANGED <<retry_vars, csrf_vars, upload_vars, rest_vars>>

\* LegacyClient::download_image up to its await: the GET request for the id
\* enters execute_with_csrf_retry.
LegacyDownloadBegin(id) ==
    /\ c_pc[Uploader] \in {"idle", "done"}
    /\ c_calls' = [c_calls EXCEPT ![Uploader] = @ + 1]
    /\ c_request' = [c_request EXCEPT ![Uploader] = MakeRequest]
    /\ c_sent' = [c_sent EXCEPT ![Uploader] = <<>>]
    /\ c_resp' = [c_resp EXCEPT ![Uploader] = <<>>]
    /\ c_result' = [c_result EXCEPT ![Uploader] = NoResult]
    /\ c_pc' = [c_pc EXCEPT ![Uploader] = "attach"]
    /\ k_net' = Append(k_net, DownloadRequest(id))
    /\ UNCHANGED <<cred_token, csrf_token, lock_writer>>

\* OpenCloudClient::download_image, had it asked for a token first.
OpenCloudDownloadClientChecked(credentials, cell) ==
    IF credentials.token.some THEN LegacyClientNew(credentials, cell)
    ELSE Err(MissingAuth)

\* LegacyClient::new(self.credentials.clone()) in
\* OpenCloudClient::download_image.
OpenCloudDownloadClient(credentials, cell) == LegacyClientNew(credentials, cell)

\* OpenCloudClient::download_image up to its await: a cookie-scheme client
\* is built from the credentials of the key-scheme client, which asks for a
\* CSRF token when they hold a session token, and its download_image starts.
\* The ? ends the call when no client was built.
OpenCloudDownloadBegin(id) ==
    \E cell \in NewCsrfTokens(k_client.val.credentials.token) :
      LET client == OpenCloudDownloadClient(k_client.val.credentials, cell)
      IN IF client.ok
           THEN /\ cred_token' = client.val.credentials.token
                /\ csrf_token' = client.val.csrf_token
                /\ lock_writer' = None
                /\ c_pc[Uploader] \in {"idle", "done"}
                /\ c_calls' = [c_calls EXCEPT ![Uploader] = @ + 1]
                /\ c_request' = [c_request EXCEPT ![Uploader] = MakeRequest]
                /\ c_sent' = [c_sent EXCEPT ![Uploader] = <<>>]
                /\ c_resp' = [c_resp EXCEPT ![Uploader] = <<>>]
                /\ c_result' = [c_result EXCEPT ![Uploader] = NoResult]
                /\ c_pc' = [c_pc EXCEPT ![Uploader] = "attach"]
                /\ k_net' = (IF client.val.credentials.token.some
                               THEN Append(k_net, CsrfTokenRequest) ELSE k_net)
                            \o <<DownloadRequest(id)>>
           ELSE /\ c_result' = [c_result EXCEPT ![Uploader] = client]
                /\ c_pc' = [c_pc EXCEPT ![Uploader] = "done"]
                /\ c_calls' = [c_calls EXCEPT ![Uploader] = @ + 1]
                /\ UNCHANGED <<cred_token, csrf_token, lock_writer, c_request,
                               c_sent, c_resp, k_net>>

\* client.download_image(id) on the client the factory returned, whichever
\* its variant, up to the await.
ClientDownloadImage ==
    /\ k_pc = "client"
    /\ k_cmd = "none"
    /\ c_calls[Uploader] < MaxCalls
    /\ \E id \in InputIds :
         IF k_client.val.variant = "Legacy" THEN LegacyDownloadBegin(id)
         ELSE OpenCloudDownloadBegin(id)
    /\ k_pc' = "download"
    /\ k_result' = NoResult
    /\ UNCHANGED <<k_exit, k_cmd, k_opts, k_creds, k_selected, k_client, manifest,
                   uploaded_inputs, k_todo, k_index, k_dirs, k_files,
                   k_index_file>>
    /\ UNCHANGED <<retry_vars, upload_vars, rest_vars>>

\* What download_image can return once execute_with_csrf_retry returned
\* result: its error, a failure of copy_to, or the bytes of the response,
\* whatever its status.
DownloadResults(id, result) ==
    IF ~result.ok THEN {result}
    ELSE {Ok([asset |-> id, status |-> result.val.status]), Err(HttpError)}

\* fs::write(path, contents): the file holds exactly the contents.
FsWrite(files, path, contents) ==
    {f \in files : f.path # path} \cup {[path |-> path, contents |-> contents]}

OutputPath == <<"output">>

\* let response = client.download_image(options.asset_id)  (the clients of
\* this command are built without an API key: cookie-scheme only)
DownloadImageCall ==
    /\ k_pc = "client"
    /\ k_cmd = "download_image"
    /\ k_client.val.variant = "Legacy"
    /\ LegacyDownloadBegin(k_opts.asset_id.v)
    /\ k_pc' = "download"
    /\ UNCHANGED <<k_exit, k_cmd, k_opts, k_creds, k_selected, k_client, manifest,
                   uploaded_inputs, k_todo, k_index, k_dirs, k_files,
                   k_index_file, k_result>>
    /\ UNCHANGED <<retry_vars, upload_vars, rest_vars>>

\* .await?; fs::write(options.output, response)?; Ok(())
DownloadImageStore ==
    /\ k_pc = "download"
    /\ k_cmd = "download_image"
    /\ c_pc[Uploader] = "done"
    /\ \E response \in DownloadResults(k_opts.asset_id.v, c_result[Uploader]) :
         IF ~response.ok
           THEN /\ k_result' = response
                /\ k_files' = k_files
           ELSE \/ /\ k_files' = FsWrite(k_files, OutputPath, response.val)
                   /\ k_result' = Ok(Unit)
                \/ /\ k_files' = k_files
                   /\ k_result' = Err(StdIoError)
    /\ k_pc' = "done"
    /\ UNCHANGED <<k_exit, k_cmd, k_opts, k_creds, k_selected, k_client, k_net,
                   manifest, uploaded_inputs, k_todo, k_index, k_dirs,
                   k_index_file>>
    /\ UNCHANGED <<retry_vars, csrf_vars, upload_vars, rest_vars>>

\* The download_image of ClientDownloadImage returns to its caller.
ClientDownloadReturn ==
    /\ k_pc = "download"
    /\ k_cmd = "none"
    /\ c_pc[Uploader] = "done"
    /\ k_result' \in DownloadResults(k_net[Len(k_net)].id, c_result[Uploader])
    /\ k_pc' = "client"
    /\ UNCHANGED <<k_exit, k_cmd, k_opts, k_creds, k_selected, k_client, k_net,
                   manifest, uploaded_inputs, k_todo, k_index, k_dirs, k_files,
                   k_index_file>>
    /\ UNCHANGED <<retry_vars, csrf_vars, upload_vars, rest_vars>>

(***************************************************************************)
(* create_cache_map                                                        *)
(***************************************************************************)
ManifestError == [type |-> "ManifestError"]

CacheDir == "cache"

\* AssetName::to_string, as the characters of the name.
NameString(name) == <<name>>

\* options.cache_dir.join(id.to_string()), as path.display().to_string()
\* prints it.
CachePath(id) == <<CacheDir, "/">> \o U64ToString(id)

\* The first loop: uploaded_inputs.entry(id).or_default().push(name) for
\* every input with an id. The Vec of an id is kept as the set of its names;
\* only its length and, for length 1, its one element are looked at.
UploadedInputs(inputs) ==
    [id \in {inputs[n].v : n \in {m \in DOMAIN inputs : inputs[m].some}}
        |-> {n \in DOMAIN inputs : inputs[n] = Some(id)}]

\* Keys in the opposite order.
RECURSIVE Descending(_)
Descending(keys) ==
    IF keys = {} THEN <<>>
    ELSE LET greatest == CHOOSE k \in keys : \A other \in keys : k >= other
         IN <<greatest>> \o Descending(keys \ {greatest})

\* The keys of a BTreeMap in the order its iterator yields them.
RECURSIVE Ascending(_)
Ascending(keys) ==
    IF keys = {} THEN <<>>
    ELSE LET least == CHOOSE k \in keys : \A other \in keys : k <= other
         IN <<least>> \o Ascending(keys \ {least})

\* BTreeMap::insert
Insert(map, key, value) ==
    [k \in DOMAIN map \cup {key} |-> IF k = key THEN value ELSE map[k]]

\* The else branch of `if contributing_assets.len() == 1`. Two variations:
\* one that downloads for every id, one that downloads from three
\* contributors on.
NeedsDownloadAlways(contributing_assets) == TRUE

NeedsDownloadFromThree(contributing_assets) ==
    Cardinality(contributing_assets) > 2

NeedsDownload(contributing_assets) == Cardinality(contributing_assets) # 1

\* project_path, Manifest::read_from_folder(&project_path)?,
\* index_file.try_resolve()?, index_file.parent()
CacheMapReadManifest ==
    /\ k_pc = "client"
    /\ k_cmd = "create_cache_map"
    /\ \/ /\ k_pc' = "dirs"
          /\ k_result' = k_result
       \/ /\ k_pc' = "done"
          /\ \E e \in {StdIoError, ManifestError} : k_result' = Err(e)
    /\ UNCHANGED <<k_exit, k_cmd, k_opts, k_creds, k_selected, k_client, k_net,
                   manifest, uploaded_inputs, k_todo, k_index, k_dirs, k_files,
                   k_index_file>>
    /\ UNCHANGED <<retry_vars, csrf_vars, upload_vars, rest_vars>>

\* fs::create_dir_all(index_dir)?; fs::create_dir_all(&options.cache_dir)?;
\* and the loop that groups the inputs by id.
CacheMapCreateDirs ==
    /\ k_pc = "dirs"
    /\ \/ /\ k_dirs' = k_dirs
          /\ k_result' = Err(StdIoError)
          /\ k_pc' = "done"
          /\ UNCHANGED <<uploaded_inputs, k_todo>>
       \/ /\ k_dirs' = k_dirs \cup {"index_dir"}
          /\ k_result' = Err(StdIoError)
          /\ k_pc' = "done"
          /\ UNCHANGED <<uploaded_inputs, k_todo>>
       \/ /\ k_dirs' = k_dirs \cup {"index_dir", "cache_dir"}
          /\ k_result' = k_result
          /\ uploaded_inputs' = UploadedInputs(manifest)
          /\ k_todo' = Ascending(DOMAIN uploaded_inputs')
          /\ k_pc' = "loop"
    /\ UNCHANGED <<k_exit, k_cmd, k_opts, k_creds, k_selected, k_client, k_net,
                   manifest, k_index, k_files, k_index_file>>
    /\ UNCHANGED <<retry_vars, csrf_vars, upload_vars, rest_vars>>

\* A turn of the second loop for an id with one contributor:
\* index.insert(id, contributing_assets[0].to_string())
CacheMapIndexUnique ==
    /\ k_pc = "loop"
    /\ k_todo # <<>>
    /\ ~NeedsDownload(uploaded_inputs[Head(k_todo)])
    /\ k_index' = Insert(k_index, Head(k_todo),
                         NameString(CHOOSE n \in uploaded_inputs[Head(k_todo)] :
                                        TRUE))
    /\ k_todo' = Tail(k_todo)
    /\ UNCHANGED <<k_exit, k_cmd, k_opts, k_creds, k_pc, k_selected, k_client, k_net,
                   manifest, uploaded_inputs, k_dirs, k_files, k_index_file,
                   k_result>>
    /\ UNCHANGED <<retry_vars, csrf_vars, upload_vars, rest_vars>>

\* A turn for an id with several contributors, up to the await:
\* api_client.download_image(id)
CacheMapDownload ==
    /\ k_pc = "loop"
    /\ k_todo # <<>>
    /\ NeedsDownload(uploaded_inputs[Head(k_todo)])
    /\ k_client.val.variant = "Legacy"
    /\ LegacyDownloadBegin(Head(k_todo))
    /\ k_pc' = "download"
    /\ UNCHANGED <<k_exit, k_cmd, k_opts, k_creds, k_selected, k_client, manifest,
                   uploaded_inputs, k_todo, k_index, k_dirs, k_files,
                   k_index_file, k_result>>
    /\ UNCHANGED <<retry_vars, upload_vars, rest_vars>>

\* The rest of that turn: .await?, fs::write(&path, contents)?,
\* index.insert(id, path.display().to_string())
CacheMapStore ==
    /\ k_pc = "download"
    /\ k_cmd = "create_cache_map"
    /\ c_pc[Uploader] = "done"
    /\ \E contents \in DownloadResults(Head(k_todo), c_result[Uploader]) :
         IF ~contents.ok
           THEN /\ k_result' = contents
                /\ k_pc' = "done"
                /\ UNCHANGED <<k_files, k_index, k_todo>>
           ELSE \/ /\ k_files' = FsWrite(k_files, CachePath(Head(k_todo)),
                                         contents.val)
                   /\ k_index' = Insert(k_index, Head(k_todo),
                                        CachePath(Head(k_todo)))
                   /\ k_todo' = Tail(k_todo)
                   /\ k_pc' = "loop"
                   /\ k_result' = k_result
                \/ /\ k_result' = Err(StdIoError)
                   /\ k_pc' = "done"
                   /\ UNCHANGED <<k_files, k_index, k_todo>>
    /\ UNCHANGED <<k_exit, k_cmd, k_opts, k_creds, k_selected, k_client, k_net,
                   manifest, uploaded_inputs, k_dirs, k_index_file>>
    /\ UNCHANGED <<retry_vars, csrf_vars, upload_vars, rest_vars>>

\* The for loop over uploaded_inputs is left when its iterator is exhausted;
\* as a variation, a loop that can be left at any turn.
LoopLeftAtAnyTurn(todo) == TRUE

LoopLeft(todo) == todo = <<>>

\* After the loop: fs::File::create(&options.index_file)?,
\* serde_json::to_writer_pretty(&mut file, &index)?, file.flush()?, Ok(()).
\* File::create truncates; a failure after it leaves an incomplete file.
\* The serializer writes the entries in the order the map's iterator yields
\* its keys (order).
CacheMapWriteIndex ==
    /\ k_pc = "loop"
    /\ LoopLeft(k_todo)
    /\ \/ /\ k_index_file' = k_index_file
          /\ k_result' = Err(StdIoError)
       \/ /\ k_index_file' = Some([complete |-> FALSE, entries |-> <<>>,
                                    order |-> <<>>])
          /\ k_result' = Err(StdIoError)
       \/ /\ k_index_file' = Some([complete |-> TRUE, entries |-> k_index,
                                    order |-> Ascending(DOMAIN k_index)])
          /\ k_result' = Ok(Unit)
    /\ k_pc' = "done"
    /\ UNCHANGED <<k_exit, k_cmd, k_opts, k_creds, k_selected, k_client, k_net,
                   manifest, uploaded_inputs, k_todo, k_index, k_dirs, k_files>>
    /\ UNCHANGED <<retry_vars, csrf_vars, upload_vars, rest_vars>>

(***************************************************************************)
(* asset_list, sync and main                                               *)
(***************************************************************************)

\* The lines asset_list writes, had it kept one id per input and not a
\* BTreeSet of ids.
RECURSIVE LinesOfInputs(_, _)
LinesOfInputs(inputs, names) ==
    IF names = {} THEN <<>>
    ELSE LET n == CHOOSE x \in names :
                      \A y \in names : inputs[x].v <= inputs[y].v
         IN <<U64ToString(inputs[n].v)>> \o LinesOfInputs(inputs, names \ {n})

AssetListLinesPerInput(inputs) ==
    LinesOfInputs(inputs, {n \in DOMAIN inputs : inputs[n].some})

\* The BTreeSet of the ids of the inputs, and writeln!(file, "{}", id) for
\* each id in the set's order.
AssetListLines(inputs) ==
    LET asset_list == {inputs[n].v : n \in {m \in DOMAIN inputs : inputs[m].some}}
    IN [i \in 1..Cardinality(asset_list)
            |-> U64ToString(Ascending(asset_list)[i])]

\* asset_list: it awaits nothing. Reading the manifest or creating the file
\* can fail; a failure of a write or of the flush leaves the lines written
\* so far.
AssetList ==
    /\ k_pc = "start"
    /\ k_cmd = "asset_list"
    /\ \/ /\ \E e \in {StdIoError, ManifestError} : k_result' = Err(e)
          /\ k_files' = k_files
       \/ /\ \E n \in 0..Len(AssetListLines(manifest)) :
                k_files' = FsWrite(k_files, OutputPath,
                               [lines |-> SubSeq(AssetListLines(manifest), 1, n)])
          /\ k_result' = Err(StdIoError)
       \/ /\ k_files' = FsWrite(k_files, OutputPath,
                                [lines |-> AssetListLines(manifest)])
          /\ k_result' = Ok(Unit)
    /\ k_pc' = "done"
    /\ UNCHANGED <<k_exit, k_cmd, k_opts, k_creds, k_selected, k_client, k_net,
                   manifest, uploaded_inputs, k_todo, k_index, k_dirs,
                   k_index_file>>
    /\ UNCHANGED <<retry_vars, csrf_vars, upload_vars, rest_vars>>

\* The arm of Command::Sync, had it run the call that is commented out
\* there: every input without an id is uploaded and the manifest written
\* with the new ids.
RunSyncUploading(inputs) ==
    [result   |-> Ok(Unit),
     inputs   |-> [n \in DOMAIN inputs |->
                     IF inputs[n].some THEN inputs[n] ELSE Some(IdStep)],
     requests |-> [i \in 1..Cardinality({n \in DOMAIN inputs : ~inputs[n].some})
                     |-> [req |-> "upload_image"]]]

\* Command::Sync(_) => Err(anyhow!("unfinished")): what the arm returns,
\* the manifest it leaves and the requests it makes.
RunSync(inputs) ==
    [result   |-> Err([type |-> "anyhow::Error", message |-> "unfinished"]),
     inputs   |-> inputs,
     requests |-> <<>>]

Sync ==
    /\ k_pc = "start"
    /\ k_cmd = "sync"
    /\ k_result' = RunSync(manifest).result
    /\ manifest' = RunSync(manifest).inputs
    /\ k_net' = k_net \o RunSync(manifest).requests
    /\ k_pc' = "done"
    /\ UNCHANGED <<k_exit, k_cmd, k_opts, k_creds, k_selected, k_client,
                   uploaded_inputs, k_todo, k_index, k_dirs, k_files,
                   k_index_file>>
    /\ UNCHANGED <<retry_vars, csrf_vars, upload_vars, rest_vars>>

\* The status main ends with once run has returned, had it not looked at
\* the result.
ExitStatusAlwaysZero(result) == 0

\* The status main ends with once run has returned: process::exit(1) on an
\* error, the end of main otherwise.
ExitStatus(result) == IF result.ok THEN 0 ELSE 1

\* The run branch of main's select!, and the panic hook: the error or the
\* panic is written out and the process exits.
MainExit ==
    /\ k_pc \in {"done", "panicked"}
    /\ k_exit' = IF k_pc = "panicked"
                   THEN Some([status |-> 1, reported |-> Err(Panicked)])
                   ELSE Some([status |-> ExitStatus(k_result),
                              reported |-> IF k_result.ok THEN NoResult
                                           ELSE k_result])
    /\ k_pc' = "exited"
    /\ UNCHANGED <<k_cmd, k_opts, k_creds, k_selected, k_client, k_net,
                   manifest, uploaded_inputs, k_todo, k_index, k_dirs, k_files,
                   k_index_file, k_result>>
    /\ UNCHANGED <<retry_vars, csrf_vars, upload_vars, rest_vars>>

\* The ctrl_c branch of main's select!: it can win while run is suspended
\* at an await (in an upload, in a download), and process::exit(0) drops
\* whatever was in flight. Building the client, asset_list and sync await
\* nothing.
CtrlC ==
    /\ k_pc \in {"upload", "download"}
    /\ k_exit' = Some([status |-> 0, reported |-> NoResult])
    /\ k_pc' = "exited"
    /\ c_pc' = [c \in Calls |->
                  IF c_pc[c] \in {"idle", "done"} THEN c_pc[c] ELSE "dropped"]
    /\ u_pc' = IF u_pc \in {"idle", "match", "panicked"} THEN u_pc ELSE "dropped"
    /\ UNCHANGED <<cred_token, csrf_token, lock_writer, c_request, c_sent,
                   c_resp, c_result, c_calls>>
    /\ UNCHANGED <<u_kind, u_create, u_body, retry_count, u_polls, u_sleeps,
                   u_client, u_result, resolve_calls>>
    /\ UNCHANGED <<k_cmd, k_opts, k_creds, k_selected, k_client, k_net,
                   manifest, uploaded_inputs, k_todo, k_index, k_dirs, k_files,
                   k_index_file, k_result>>
    /\ UNCHANGED <<retry_vars, rest_vars>>

(***************************************************************************)
(* data::Manifest: read_from_folder and write_to_folder                    *)
(***************************************************************************)

\* u64 values, written by their decimal digits: 7, i64::MAX and i64::MAX + 1.
U64Samples ==
    { <<"7">>,
      <<"9", "2", "2", "3", "3", "7", "2", "0", "3", "6",
        "8", "5", "4", "7", "7", "5", "8", "0", "7">>,
      <<"9", "2", "2", "3", "3", "7", "2", "0", "3", "6",
        "8", "5", "4", "7", "7", "5", "8", "0", "8">> }

\* A TOML integer is an i64: the digits of a non-negative one are at most
\* those of i64::MAX.
FitsI64(digits) ==
    LET max == <<"9", "2", "2", "3", "3", "7", "2", "0", "3", "6",
                 "8", "5", "4", "7", "7", "5", "8", "0", "7">>
    IN \/ Len(digits) < Len(max)
       \/ /\ Len(digits) = Len(max)
          /\ \/ digits = max
             \/ \E i \in 1..Len(max) :
                  /\ SubSeq(digits, 1, i - 1) = SubSeq(max, 1, i - 1)
                  /\ Digit(digits[i]) < Digit(max[i])

\* Manifest { groups, inputs } over two asset names and one group name, with
\* GroupManifest { inputs, outputs } and InputManifest { uploaded_hash,
\* uploaded_id, uploaded_slice }. The config snapshots (GroupConfig,
\* InputConfig) are types the sources do not hold and are left out.
StoreManifests ==
    LET Maps(D, R) == UNION {[S -> R] : S \in SUBSET D}
        ImageSlice == [min : {<<0, 0>>}, max : {<<1, 1>>}]
        GroupManifest == [inputs : SUBSET {"a"}, outputs : SUBSET {<<"7">>}]
        InputManifest ==
            [uploaded_hash : {None, Some("h")},
             uploaded_id : {None} \cup {Some(id) : id \in U64Samples},
             uploaded_slice : {None} \cup {Some(slice) : slice \in ImageSlice}]
    IN [groups : Maps({"g"}, GroupManifest), inputs : Maps({"a", "b"}, InputManifest)]

\* ManifestError: Io { source } with the kind of the io::Error,
\* DeserializeToml, SerializeToml.
ManifestErrorOf(variant, kind) ==
    [type |-> "ManifestError", variant |-> variant, kind |-> kind]

\* ManifestError::is_not_found
IsNotFound(error) ==
    IF error.variant = "Io" THEN error.kind = "NotFound" ELSE FALSE

\* toml::to_vec(self): the document as its lines, a table header or a
\* key/value pair each. A map with no entry is written as its bare header, a
\* None field is left out, the keys of InputManifest are kebab-case, a
\* BTreeSet is an array in ascending order, an integer is its digits.
TomlToVec(self) ==
    LET Table(path) == [line |-> "table", path |-> path]
        Key(key, value) == [line |-> "key", key |-> key, value |-> value]
        Str(str) == [t |-> "string", v |-> str]
        Integer(digits) == [t |-> "integer", v |-> digits]
        Arr(elems) == [t |-> "array", v |-> elems]
        Names(set) == (IF "a" \in set THEN <<Str("a")>> ELSE <<>>)
                      \o (IF "b" \in set THEN <<Str("b")>> ELSE <<>>)
        Ids(set) == IF <<"7">> \in set THEN <<Integer(<<"7">>)>> ELSE <<>>
        Pair(p) == <<Integer(U64ToString(p[1])), Integer(U64ToString(p[2]))>>
        Group(g) ==
            IF g \notin DOMAIN self.groups THEN <<>>
            ELSE << Table(<<"groups", g>>),
                    Key("inputs", Arr(Names(self.groups[g].inputs))),
                    Key("outputs", Arr(Ids(self.groups[g].outputs))) >>
        Input(n) ==
            IF n \notin DOMAIN self.inputs THEN <<>>
            ELSE LET input == self.inputs[n]
                 IN <<Table(<<"inputs", n>>)>>
                    \o (IF input.uploaded_hash.some
                          THEN <<Key("uploaded-hash", Str(input.uploaded_hash.v))>>
                          ELSE <<>>)
                    \o (IF input.uploaded_id.some
                          THEN <<Key("uploaded-id", Integer(input.uploaded_id.v))>>
                          ELSE <<>>)
                    \o (IF input.uploaded_slice.some
                          THEN << Table(<<"inputs", n, "uploaded-slice">>),
                                  Key("min", Arr(Pair(input.uploaded_slice.v.min))),
                                  Key("max", Arr(Pair(input.uploaded_slice.v.max))) >>
                          ELSE <<>>)
    IN (IF DOMAIN self.groups = {} THEN <<Table(<<"groups">>)>>
        ELSE Group("g"))
       \o (IF DOMAIN self.inputs = {} THEN <<Table(<<"inputs">>)>>
           ELSE Input("a") \o Input("b"))

\* toml::from_slice(&contents), had Manifest been #[serde(default)]: a
\* document without [groups] or [inputs] reads as a Manifest with none.
TomlFromSliceDefault(contents) ==
    LET lines == 1..Len(contents)
        headers == {i \in lines : contents[i].line = "table"}
        tables == {contents[i].path : i \in headers}
        Names(top) == {p[2] : p \in {q \in tables : Len(q) >= 2 /\ q[1] = top}}
    IN IF \E i \in lines : contents[i].line = "garbage"
         THEN Err(ManifestErrorOf("DeserializeToml", "syntax"))
         ELSE Ok([groups |-> [g \in Names("groups") |-> [inputs |-> {}, outputs |-> {}]],
                  inputs |-> [n \in Names("inputs") |->
                                [uploaded_hash |-> None, uploaded_id |-> None,
                                 uploaded_slice |-> None]]])

\* toml::from_slice(&contents) into a Manifest. The document has to be TOML
\* (no line that is neither a header nor a key/value pair, no table and no
\* key defined twice, every integer an i64), groups and inputs have to be
\* there (Manifest is not #[serde(default)]), a GroupManifest needs inputs
\* and outputs, and every value has to be of its field's type. A missing
\* Option field is None.
TomlFromSlice(contents) ==
    LET lines == 1..Len(contents)
        headers == {i \in lines : contents[i].line = "table"}
        keys == {i \in lines : contents[i].line = "key"}
        tables == {contents[i].path : i \in headers}
        TableOf(i) ==
            LET before == {j \in headers : j < i}
            IN IF before = {} THEN <<>>
               ELSE contents[CHOOSE j \in before : \A k \in before : k <= j].path
        KeysOf(path, key) ==
            {i \in keys : TableOf(i) = path /\ contents[i].key = key}
        Has(path, key) == KeysOf(path, key) # {}
        Value(path, key) == contents[CHOOSE i \in KeysOf(path, key) : TRUE].value
        Is(path, key, t) == Has(path, key) /\ Value(path, key).t = t
        ArrayOf(path, key, t, len) ==
            /\ Is(path, key, "array")
            /\ \A e \in 1..Len(Value(path, key).v) : Value(path, key).v[e].t = t
            /\ len >= 0 => Len(Value(path, key).v) = len
        Elems(path, key) ==
            {Value(path, key).v[e].v : e \in 1..Len(Value(path, key).v)}
        IntegersOf(value) ==
            IF value.t = "integer" THEN {value.v}
            ELSE IF value.t = "array"
                   THEN UNION {IF value.v[e].t = "integer" THEN {value.v[e].v} ELSE {}
                               : e \in 1..Len(value.v)}
                   ELSE {}
        Names(top) == {p[2] : p \in {q \in tables : Len(q) >= 2 /\ q[1] = top}}
        Slice(n) == <<"inputs", n, "uploaded-slice">>
        Number(digits) == ParseU64(digits).val
        is_toml ==
            /\ \A i \in lines : contents[i].line \in {"table", "key"}
            /\ \A i, j \in headers : contents[i].path = contents[j].path => i = j
            /\ \A i, j \in keys :
                 (TableOf(i) = TableOf(j) /\ contents[i].key = contents[j].key)
                     => i = j
            /\ \A i \in keys : \A digits \in IntegersOf(contents[i].value) :
                 FitsI64(digits)
        is_manifest ==
            /\ \E p \in tables : p[1] = "groups"
            /\ \E p \in tables : p[1] = "inputs"
            /\ \A g \in Names("groups") :
                 /\ ArrayOf(<<"groups", g>>, "inputs", "string", -1)
                 /\ ArrayOf(<<"groups", g>>, "outputs", "integer", -1)
            /\ \A n \in Names("inputs") :
                 /\ Has(<<"inputs", n>>, "uploaded-hash")
                        => Is(<<"inputs", n>>, "uploaded-hash", "string")
                 /\ Has(<<"inputs", n>>, "uploaded-id")
                        => Is(<<"inputs", n>>, "uploaded-id", "integer")
                 /\ Slice(n) \in tables
                        => /\ ArrayOf(Slice(n), "min", "integer", 2)
                           /\ ArrayOf(Slice(n), "max", "integer", 2)
        OptionOf(path, key) ==
            IF Has(path, key) THEN Some(Value(path, key).v) ELSE None
        Pair(path, key) ==
            <<Number(Value(path, key).v[1].v), Number(Value(path, key).v[2].v)>>
    IN IF ~is_toml THEN Err(ManifestErrorOf("DeserializeToml", "syntax"))
       ELSE IF ~is_manifest THEN Err(ManifestErrorOf("DeserializeToml", "data"))
       ELSE Ok([groups |-> [g \in Names("groups") |->
                              [inputs |-> Elems(<<"groups", g>>, "inputs"),
                               outputs |-> Elems(<<"groups", g>>, "outputs")]],
                inputs |-> [n \in Names("inputs") |->
                              [uploaded_hash |-> OptionOf(<<"inputs", n>>, "uploaded-hash"),
                               uploaded_id |-> OptionOf(<<"inputs", n>>, "uploaded-id"),
                               uploaded_slice |->
                                   IF Slice(n) \in tables
                                     THEN Some([min |-> Pair(Slice(n), "min"),
                                                max |-> Pair(Slice(n), "max")])
                                     ELSE None]]])

\* The manifest files a run can find: none, one that is not TOML, an empty
\* one, and one a manifest was written to.
StoredFiles ==
    {None, Some(<<[line |-> "garbage"]>>), Some(<<>>)}
        \cup {Some(TomlToVec([groups |-> <<>>,
                              inputs |-> [n \in {"a", "b"} |->
                                            [uploaded_hash |-> Some("h"),
                                             uploaded_id |-> Some(<<"7">>),
                                             uploaded_slice |-> None]]]))}

\* Manifest::read_from_folder: fs::read fails with NotFound when there is no
\* file and can fail otherwise (PermissionDenied stands for the other kinds);
\* the contents are then deserialized.
ReadFromFolder ==
    /\ m_pc \in {"start", "written"}
    /\ m_result' \in
         IF ~m_file.some THEN {Err(ManifestErrorOf("Io", "NotFound"))}
         ELSE {Err(ManifestErrorOf("Io", "PermissionDenied")), TomlFromSlice(m_file.v)}
    /\ m_pc' = IF m_pc = "start" THEN "loaded" ELSE "reread"
    /\ UNCHANGED <<m_file, m_old, m_arg>>
    /\ UNCHANGED <<retry_vars, csrf_vars, upload_vars, cmd_vars, resolver_vars>>

\* write_to_folder, toml::to_vec(self).context(SerializeToml)?: nothing has
\* touched the file yet. The serializer may refuse an integer that is not
\* an i64 or write its digits.
WriteSerialize ==
    /\ m_pc = "loaded"
    /\ \/ /\ m_pc' = "serialized"
          /\ m_result' = NoResult
       \/ /\ \E n \in DOMAIN m_arg.inputs :
                /\ m_arg.inputs[n].uploaded_id.some
                /\ ~FitsI64(m_arg.inputs[n].uploaded_id.v)
          /\ m_pc' = "done"
          /\ m_result' = Err(ManifestErrorOf("SerializeToml", "integer"))
    /\ UNCHANGED <<m_file, m_old, m_arg>>
    /\ UNCHANGED <<retry_vars, csrf_vars, upload_vars, cmd_vars, resolver_vars>>

\* fs::write, File::create(path): the file is there and empty, or the call
\* fails and the file is as it was.
WriteCreate ==
    /\ m_pc = "serialized"
    /\ \/ /\ m_file' = Some(<<>>)
          /\ m_pc' = "created"
          /\ m_result' = m_result
       \/ /\ m_file' = m_file
          /\ m_pc' = "done"
          /\ m_result' = Err(ManifestErrorOf("Io", "PermissionDenied"))
    /\ UNCHANGED <<m_old, m_arg>>
    /\ UNCHANGED <<retry_vars, csrf_vars, upload_vars, cmd_vars, resolver_vars>>

\* What a write_all that stopped early leaves: the first lines, and
\* possibly a cut one.
PartlyWritten(contents) ==
    {SubSeq(contents, 1, n) \o cut :
        n \in 0..(Len(contents) - 1), cut \in {<<>>, <<[line |-> "garbage"]>>}}

\* fs::write, file.write_all(contents): every line is written, or the write
\* fails part of the way.
WriteAll ==
    /\ m_pc = "created"
    /\ \/ /\ m_file' = Some(TomlToVec(m_arg))
          /\ m_pc' = "written"
          /\ m_result' = Ok(Unit)
       \/ /\ \E contents \in PartlyWritten(TomlToVec(m_arg)) : m_file' = Some(contents)
          /\ m_pc' = "done"
          /\ m_result' = Err(ManifestErrorOf("Io", "StorageFull"))
    /\ UNCHANGED <<m_old, m_arg>>
    /\ UNCHANGED <<retry_vars, csrf_vars, upload_vars, cmd_vars, resolver_vars>>

\* The process is ended from outside (a signal it does not handle, loss of
\* power): inside write_all the file keeps what had been written. The
\* ctrl_c branch of main is not this: it runs only when run is suspended at
\* an await, and write_to_folder awaits nothing.
Interrupt ==
    /\ m_pc \notin {"killed", "done", "reread"}
    /\ m_pc' = "killed"
    /\ m_file' \in IF m_pc = "created"
                     THEN {Some(contents) : contents \in PartlyWritten(TomlToVec(m_arg))}
                     ELSE {m_file}
    /\ UNCHANGED <<m_old, m_arg, m_result>>
    /\ UNCHANGED <<retry_vars, csrf_vars, upload_vars, cmd_vars, resolver_vars>>

(***************************************************************************)
(* resolve_web_asset_id                                                    *)
(***************************************************************************)

\* "http://www.roblox.com/asset/?id=", one token of a text.
AssetUrlPrefix == "http://www.roblox.com/asset/?id="

\* What EventReader gives for a response body, event by event. A body that
\* is not XML is an error at once, or after the StartDocument that the
\* reader makes up at a first "<", or inside the root when it breaks off
\* there. A document has a root element, before it
\* possibly a processing instruction (comments and white space give no
\* event), and in the root possibly another element and a url element,
\* which is empty or holds one text.
EventStreams ==
    LET Event(e) == [e |-> e]
        StartElement(name) == [e |-> "StartElement", name |-> name]
        EndElement(name) == [e |-> "EndElement", name |-> name]
        Characters(text) == [e |-> "Characters", text |-> text]
        texts == { <<AssetUrlPrefix, "7">>, <<AssetUrlPrefix, "4", "2">>,
                   <<AssetUrlPrefix, "+", "7">>, <<"4", "2">>,
                   <<AssetUrlPrefix, "x">>, <<AssetUrlPrefix>>,
                   <<"x", AssetUrlPrefix, "7">>,
                   <<AssetUrlPrefix, "7", AssetUrlPrefix, "8">> }
        urls == {<<>>, <<StartElement("url"), EndElement("url")>>}
                  \cup {<<StartElement("url"), Characters(text), EndElement("url")>>
                          : text \in texts}
    IN { <<Event("Error")>>, <<Event("StartDocument"), Event("Error")>>,
         <<Event("StartDocument"), StartElement("roblox"), Event("Error")>> }
         \cup { <<Event("StartDocument")>> \o instruction
                    \o <<StartElement(root)>> \o other \o url
                    \o <<EndElement(root), Event("EndDocument")>> :
                  instruction \in {<<>>, <<Event("ProcessingInstruction")>>},
                  root \in {"roblox", "other"},
                  other \in {<<>>, <<StartElement("Meta"), EndElement("Meta")>>},
                  url \in urls }

\* parser.next() for the i-th time: past the end of the stream the reader
\* gives its last event again.
ParserNext(events, i) == events[IF i <= Len(events) THEN i ELSE Len(events)]

\* bail!(message)
Bail(message) == Err([type |-> "anyhow::Error", message |-> message])

\* The else branch of the first let: the input id, had it been an error.
NotWellFormedBails(asset_id) == Bail("not well-formed XML")

\* return Ok(asset_id) of the first let's else branch.
NotWellFormed(asset_id) == Ok(asset_id)

\* The text of the url element to an id, had the text been parsed whole.
ContentAssetIdWhole(content) ==
    IF ParseU64(content).ok THEN Ok(ParseU64(content).val)
    ELSE Bail("ParseIntError")

\* content.split(prefix): the first part is always there, the second is the
\* text between the first prefix and the next one or the end, and is parsed
\* with u64::from_str.
ContentAssetId(content) ==
    LET at == {i \in 1..Len(content) : content[i] = AssetUrlPrefix}
        first == CHOOSE i \in at : \A j \in at : i <= j
        after == SubSeq(content, first + 1, Len(content))
        next == {i \in 1..Len(after) : after[i] = AssetUrlPrefix}
        asset_id == IF next = {} THEN after
                    ELSE SubSeq(after, 1, (CHOOSE i \in next : \A j \in next : i <= j) - 1)
    IN IF at = {} THEN Bail("missing asset id")
       ELSE IF ParseU64(asset_id).ok THEN Ok(ParseU64(asset_id).val)
       ELSE Bail("ParseIntError")

\* The function up to its loop: the request, the first event and the
\* second.
ResolveEnter ==
    /\ x_pc = "call"
    /\ \/ /\ x_result' = Err(HttpError)
          /\ x_pc' = "done"
          /\ x_pos' = x_pos
       \/ /\ ParserNext(x_events, 1).e # "StartDocument"
          /\ x_result' = NotWellFormed(x_id)
          /\ x_pc' = "done"
          /\ x_pos' = 1
       \/ /\ ParserNext(x_events, 1).e = "StartDocument"
          /\ x_pos' = 2
          /\ IF ParserNext(x_events, 2).e # "StartElement"
               THEN x_result' = Ok(x_id) /\ x_pc' = "done"
               ELSE IF ParserNext(x_events, 2).name # "roblox"
                      THEN /\ x_result' = Bail("Unknown XML from asset delivery API")
                           /\ x_pc' = "done"
                      ELSE x_result' = x_result /\ x_pc' = "loop"
    /\ UNCHANGED <<x_id, x_events>>
    /\ UNCHANGED <<retry_vars, csrf_vars, upload_vars, cmd_vars, store_vars>>

\* One turn of the loop: an event that is not the start of a url element is
\* passed over; after the start of a url element the next event has to be
\* its text. The loop has no other way out.
ResolveLoop ==
    /\ x_pc = "loop"
    /\ LET e == ParserNext(x_events, x_pos + 1)
           text == ParserNext(x_events, x_pos + 2)
       IN IF e.e = "StartElement" /\ e.name = "url"
            THEN /\ x_pos' = x_pos + 2
                 /\ x_pc' = "done"
                 /\ x_result' =
                      IF text.e = "Characters" THEN ContentAssetId(text.text)
                      ELSE Bail("expected characters after url start element")
            ELSE /\ x_pos' = IF x_pos < Len(x_events) THEN x_pos + 1 ELSE x_pos
                 /\ UNCHANGED <<x_pc, x_result>>
    /\ UNCHANGED <<x_id, x_events>>
    /\ UNCHANGED <<retry_vars, csrf_vars, upload_vars, cmd_vars, store_vars>>

(***************************************************************************)
(* Idle values of the components a specification does not run              *)
(***************************************************************************)
IdleRetry ==
    /\ max_retries = 0
    /\ attempts = 1
    /\ delay = 1
    /\ index = 0
    /\ r_pc = "idle"
    /\ r_events = <<>>
    /\ r_result = NoResult

IdleCsrf ==
    /\ cred_token = None
    /\ csrf_token = None
    /\ lock_writer = None
    /\ c_pc = [c \in Calls |-> "idle"]
    /\ c_request = [c \in Calls |-> None]
    /\ c_sent = [c \in Calls |-> <<>>]
    /\ c_resp = [c \in Calls |-> <<>>]
    /\ c_result = [c \in Calls |-> NoResult]
    /\ c_calls = [c \in Calls |-> 0]

IdleUpload ==
    /\ u_kind = "none"
    /\ u_pc = "idle"
    /\ u_create = NoResult
    /\ u_body = NoResult
    /\ retry_count = 0
    /\ u_polls = <<>>
    /\ u_sleeps = <<>>
    /\ u_client = NoResult
    /\ u_result = NoResult
    /\ resolve_calls = <<>>

IdleCommand ==
    /\ k_cmd = "none"
    /\ k_opts = None
    /\ k_creds = None
    /\ k_pc = "idle"
    /\ k_selected = "none"
    /\ k_client = NoResult
    /\ k_net = <<>>
    /\ manifest = <<>>
    /\ uploaded_inputs = <<>>
    /\ k_todo = <<>>
    /\ k_index = <<>>
    /\ k_dirs = {}
    /\ k_files = {}
    /\ k_index_file = None
    /\ k_result = NoResult
    /\ k_exit = None

IdleStore ==
    /\ m_file = None
    /\ m_old = None
    /\ m_arg = None
    /\ m_pc = "idle"
    /\ m_result = NoResult

IdleResolver ==
    /\ x_id = 0
    /\ x_events = <<>>
    /\ x_pos = 0
    /\ x_pc = "idle"
    /\ x_result = NoResult

(***************************************************************************)
(* Specification of the retry decorator                                    *)
(***************************************************************************)
InitSpecRetry ==
    InitRetry /\ IdleCsrf /\ IdleUpload /\ IdleCommand /\ IdleStore /\ IdleResolver

NextRetry == RetryUpload

SpecRetry == InitSpecRetry /\ [][NextRetry]_vars

(***************************************************************************)
(* Claims about the retry decorator                                        *)
(***************************************************************************)

\* The results of the wrapped uploads of the call, in order.
InnerUploads == SelectSeq(r_events, LAMBDA e : e.ev = "upload")
InnerSleeps == SelectSeq(r_events, LAMBDA e : e.ev = "sleep")

C4_FirstSuccessReturned ==
    /\ \A i \in 1..Len(InnerUploads) :
           InnerUploads[i].res.ok => i = Len(InnerUploads)
    /\ (Len(InnerUploads) > 0 /\ InnerUploads[Len(InnerUploads)].res.ok)
           => /\ r_pc = "return"
              /\ r_result = InnerUploads[Len(InnerUploads)].res
              /\ Len(InnerUploads) <= max_retries + 1

\* C4 witness: after two RateLimited errors the third wrapped call succeeds
\* and its response is returned.
C4_Witness ==
    /\ r_pc = "return"
    /\ max_retries = 3
    /\ Len(InnerUploads) = 3
    /\ InnerUploads[1].res = Err(RateLimited)
    /\ InnerUploads[2].res = Err(RateLimited)
    /\ InnerUploads[3].res = Ok(SyncUploadResponse(10))
    /\ r_result = Ok(SyncUploadResponse(10))

\* C5: RetryBackend retries only after a RateLimited error: every wrapped
\* upload but the first directly follows a wrapped RateLimited error.
C5_RetryOnlyAfterRateLimited ==
    \A i \in 1..Len(InnerUploads) :
        i > 1 => InnerUploads[i - 1].res = Err(RateLimited)

\* C6: with max_retries = 0 the decorator acts just as the wrapped backend:
\* one wrapped call, no sleep, and the wrapped result is the result.
C6_ZeroRetriesIsTransparent ==
    (max_retries = 0 /\ r_pc = "return")
        => /\ Len(InnerUploads) = 1
           /\ Len(InnerSleeps) = 0
           /\ r_result = InnerUploads[1].res

(***************************************************************************)
(* Specification of the cookie-scheme client                               *)
(***************************************************************************)
InitSpecCsrf ==
    IdleRetry /\ InitCsrf /\ IdleUpload /\ IdleCommand /\ IdleStore /\ IdleResolver

NextCsrf == \E c \in Calls : BeginExecute(c) \/ ExecuteStep(c)

SpecCsrf == InitSpecCsrf /\ [][NextCsrf]_vars

\* The runtime polls every task that can make progress, and every request
\* is answered: a call that can take a step eventually takes one.
FairSpecCsrf ==
    SpecCsrf /\ \A c \in Calls : WF_vars(ExecuteStep(c))

(***************************************************************************)
(* Claims about execute_with_csrf_retry                                    *)
(***************************************************************************)

\* The first response of the current call of c is a 403 with a token header.
FirstIs403WithToken(c) ==
    /\ Len(c_resp[c]) >= 1
    /\ c_resp[c][1].status = 403
    /\ c_resp[c][1].csrf.some

\* C1: when the first response is a 403 with an X-CSRF-Token header, the call
\* goes on to send exactly one more request, carrying the new token, and
\* returns what that request yields.
C1_RetriesOnceWithNewToken ==
    \A c \in Calls :
        [](FirstIs403WithToken(c)
            => <>(/\ c_pc[c] = "done"
                  /\ Len(c_sent[c]) = 2
                  /\ c_sent[c][2].csrf = c_resp[c][1].csrf
                  /\ \/ c_result[c] = Err(HttpError)
                     \/ Len(c_resp[c]) = 2 /\ c_result[c] = Ok(c_resp[c][2])))

\* C2 (state part): a call whose first response is not a 403 with a token
\* header has, once the response is matched, returned that response after
\* one request and holds no write guard.
C2_FirstResponseReturned ==
    \A c \in Calls :
        (/\ Len(c_resp[c]) >= 1
         /\ ~FirstIs403WithToken(c)
         /\ c_pc[c] # "match")
            => /\ c_pc[c] = "done"
               /\ Len(c_sent[c]) = 1
               /\ Len(c_resp[c]) = 1
               /\ c_result[c] = Ok(c_resp[c][1])
               /\ lock_writer # Some(c)

\* C2 (step part): the step that matches such a response leaves the cached
\* token as it is.
C2_TokenKept ==
    \A c \in Calls :
        (c_pc[c] = "match" /\ ~FirstIs403WithToken(c) /\ c_pc'[c] # "match")
            => csrf_token' = csrf_token

\* C2: when the first response is not a 403, or is a 403 without a token
\* header, one request is sent, the response is returned as it is and the
\* cached token is unchanged.
C2_NoRetryFrame == []C2_FirstResponseReturned /\ [][C2_TokenKept]_vars

\* C2 witness: a 403 without token header was returned after one request
\* while a token was cached.
C2_Witness ==
    /\ c_pc["c1"] = "done"
    /\ Len(c_sent["c1"]) = 1
    /\ c_resp["c1"] = <<[status |-> 403, csrf |-> None]>>
    /\ c_result["c1"] = Ok([status |-> 403, csrf |-> None])
    /\ csrf_token = Some(StartToken)

(***************************************************************************)
(* Specification of the remote upload backend                              *)
(***************************************************************************)
InitSpecUpload ==
    /\ IdleRetry
    /\ InitUpload
    /\ IF u_kind = "Legacy" THEN InitCsrf ELSE IdleCsrf
    /\ IdleCommand
    /\ IdleStore
    /\ IdleResolver

NextUpload ==
    \/ UploadLegacy
    \/ ExecuteStep(Uploader)
    \/ UploadLegacyResponse
    \/ UploadOpenCloud
    \/ PollOperation
    \/ PollSleep
    \/ UploadMatch

SpecUpload == InitSpecUpload /\ [][NextUpload]_vars

\* Every poll is answered and the sleep of the loop, a blocking one, ends:
\* a loop that can take its next step takes it.
FairSpecUpload == SpecUpload /\ WF_vars(PollOperation) /\ WF_vars(PollSleep)

(***************************************************************************)
(* Claims about the key-scheme poll loop                                   *)
(***************************************************************************)

\* The first n polls of the upload were all answered as pending.
FirstPending(n) ==
    /\ Len(u_polls) >= n
    /\ \A i \in 1..n : u_polls[i].kind = "pending"

\* C7: when 6 consecutive polls are answered as pending, the upload fails
\* with AssetGetFailed and no further poll is made.
C7_SixPendingPollsFail ==
    FirstPending(6)
        => /\ Len(u_polls) = 6
           /\ u_client = Err(AssetGetFailed)

\* C8: when the first N polls (0 <= N <= 4) are answered as pending and the
\* next one as completed with a numeric id X, the upload made exactly N + 1
\* polls, slept N times, the k-th sleep 50 ms * k^2, and returns X.
C8_PendingThenCompleted ==
    \A N \in 0..4 :
        (/\ FirstPending(N)
         /\ Len(u_polls) >= N + 1
         /\ u_polls[N + 1].kind = "completed"
         /\ ParseU64(u_polls[N + 1].asset_id).ok)
            => /\ Len(u_polls) = N + 1
               /\ u_sleeps = [k \in 1..N |-> 50 * k * k]
               /\ u_pc \in {"match", "done"}
               /\ u_client = Ok(ApiUploadResponse(
                                  ParseU64(u_polls[N + 1].asset_id).val,
                                  ParseU64(u_polls[N + 1].asset_id).val))

\* C8 witness: three pending polls, then completed with id "42": four polls,
\* sleeps of 50, 200 and 450 ms, and 42 returned.
C8_Witness ==
    /\ u_pc = "done"
    /\ u_polls = <<Pending, Pending, Pending, Completed(<<"4", "2">>)>>
    /\ u_sleeps = <<50, 200, 450>>
    /\ u_client = Ok(ApiUploadResponse(42, 42))

(***************************************************************************)
(* Claims about RobloxSyncBackend::upload                                  *)
(***************************************************************************)

\* The client's upload was rejected with HTTP 429: the cookie-scheme
\* client's final response, or the key-scheme client's creation request or
\* poll.
RejectedWith429 ==
    \/ /\ u_kind = "Legacy"
       /\ c_result[Uploader].ok
       /\ c_result[Uploader].val.status = 429
       /\ u_body.ok
    \/ /\ u_kind = "OpenCloud"
       /\ ~u_create.ok
       /\ u_create.err.type = "RbxCloudError"
       /\ u_create.err.kind = "HttpStatusError"
       /\ u_create.err.code = 429
    \/ /\ u_kind = "OpenCloud"
       /\ Len(u_polls) >= 1
       /\ u_polls[Len(u_polls)].kind = "error"
       /\ u_polls[Len(u_polls)].err.kind = "HttpStatusError"
       /\ u_polls[Len(u_polls)].err.code = 429

\* C9: RobloxSyncBackend.upload returns RateLimited whenever the client's
\* upload was rejected with HTTP 429, for both client variants.
C9_RateLimitedOn429 ==
    (u_pc = "done" /\ RejectedWith429) => u_result = Err(RateLimited)

\* The error is an HTTP 429 response, in either client's error type.
Is429(e) ==
    \/ e.type = "RobloxApiError" /\ e.kind = "ResponseError" /\ e.status = 429
    \/ e.type = "RbxCloudError" /\ e.kind = "HttpStatusError" /\ e.code = 429

\* C10: every client error other than an HTTP 429 response is returned by
\* RobloxSyncBackend.upload unchanged, kind and payload.
C10_OtherErrorsPassThrough ==
    (u_pc = "done" /\ ~u_client.ok /\ ~Is429(u_client.err))
        => u_result = u_client

\* C10 witness: the cookie-scheme client failed with ResponseError for a 403
\* without token header, and the backend returned that error.
C10_Witness ==
    /\ u_pc = "done"
    /\ u_kind = "Legacy"
    /\ ~u_client.ok
    /\ u_client.err.type = "RobloxApiError"
    /\ u_client.err.kind = "ResponseError"
    /\ u_client.err.status = 403
    /\ u_result = u_client

(***************************************************************************)
(* Claims about the cookie-scheme upload                                   *)
(***************************************************************************)

\* The cookie-scheme upload got a final response and read its body.
LegacyAnswered ==
    /\ u_kind = "Legacy"
    /\ u_pc \in {"match", "done", "panicked"}
    /\ c_result[Uploader].ok
    /\ u_body.ok

\* C15: cookie-scheme upload_image classifies the final response: non-2xx
\* gives ResponseError{status, body}; 2xx with a body that is not JSON of
\* the expected shape gives BadResponseJson; 2xx with success = false gives
\* ApiError with the message, whether or not the message field is present.
C15_ResponseClassified ==
    LegacyAnswered =>
        LET status == c_result[Uploader].val.status
            body == u_body.val
        IN /\ ~IsSuccess(status) => u_client = Err(ResponseError(status, body))
           /\ (IsSuccess(status) /\ ~body.json)
                  => u_client = Err(BadResponseJson(body))
           /\ (IsSuccess(status) /\ body.json /\ ~body.success)
                  => /\ ~u_client.ok
                     /\ u_client.err.type = "RobloxApiError"
                     /\ u_client.err.kind = "ApiError"
                     /\ body.message.some
                            => u_client.err.message = body.message.v

\* C16 as stated: after a successful cookie-scheme upload the resolver was
\* called exactly once, on the backing id the server returned.
C16_ResolverCalledOnce ==
    (LegacyAnswered /\ u_client.ok)
        => resolve_calls = <<u_body.val.backing_asset_id.v>>

\* C16 amended: the UploadResponse of a successful cookie-scheme upload holds
\* the AssetId and the BackingAssetId of the server's JSON body, each in its
\* own field, and upload_image calls no resolver.
C16_IdsFromServerResponse ==
    (LegacyAnswered /\ u_client.ok)
        => /\ u_body.val.json
           /\ u_body.val.success
           /\ u_client.val.asset_id = u_body.val.asset_id.v
           /\ u_client.val.backing_asset_id = u_body.val.backing_asset_id.v
           /\ resolve_calls = <<>>

\* C16 witness: the server answered 200 with AssetId 5 and BackingAssetId 6,
\* and the upload returned asset_id 5, backing_asset_id 6.
C16_Witness ==
    /\ LegacyAnswered
    /\ u_pc = "done"
    /\ u_body.val = RawBody(TRUE, None, Some(5), Some(6))
    /\ u_client = Ok(ApiUploadResponse(5, 6))

(***************************************************************************)
(* Claims about the key-scheme upload                                      *)
(***************************************************************************)

\* The error value the claim names; RobloxApiError has no such variant.
MalformedOperationPath ==
    [type |-> "RobloxApiError", kind |-> "MalformedOperationPath"]

\* C17: when the creation response has no operation path the key-scheme
\* upload fails with MissingOperationPath; when the path does not start with
\* "operations/" it fails with MalformedOperationPath; no poll is made in
\* either case.
C17_OperationPathErrors ==
    (u_kind = "OpenCloud" /\ u_pc # "upload" /\ u_create.ok)
        => /\ ~u_create.val.path.some
                  => /\ u_client = Err(MissingOperationPath)
                     /\ u_polls = <<>>
           /\ (/\ u_create.val.path.some
               /\ ~StripPrefix(u_create.val.path.v, OperationsPrefix).some)
                  => /\ u_client = Err(MalformedOperationPath)
                     /\ u_polls = <<>>

\* The unsigned integer an id string of IdStrings stands for, -1 for a string
\* that is not a decimal number.
IdValue(str) ==
    CASE str = <<"7">> -> 7
      [] str = <<"4", "2">> -> 42
      [] str = <<"+", "3">> -> 3
      [] OTHER -> -1

\* C18: a completed poll is the last poll of the upload and no sleep follows
\* it; when its id string is the number X the upload answers asset_id =
\* backing_asset_id = X, otherwise it fails with AssetGetFailed.
C18_CompletedPollDecides ==
    \A i \in 1..Len(u_polls) :
        u_polls[i].kind = "completed"
            => /\ i = Len(u_polls)
               /\ Len(u_sleeps) = i - 1
               /\ u_pc \in {"match", "done"}
               /\ u_client =
                     IF IdValue(u_polls[i].asset_id) >= 0
                       THEN Ok(ApiUploadResponse(IdValue(u_polls[i].asset_id),
                                                 IdValue(u_polls[i].asset_id)))
                       ELSE Err(AssetGetFailed)

\* C18 witness: one pending poll, then a completed one with id "+3": two
\* polls, one sleep, and 3 as both ids.
C18_Witness ==
    /\ u_pc = "done"
    /\ u_polls = <<Pending, Completed(<<"+", "3">>)>>
    /\ u_sleeps = <<50>>
    /\ u_client = Ok(ApiUploadResponse(3, 3))


(***************************************************************************)
(* Specification of the client factory                                     *)
(***************************************************************************)
InitSpecClient ==
    IdleRetry /\ IdleCsrf /\ IdleUpload /\ InitClient /\ IdleStore /\ IdleResolver

NextClient ==
    \/ GetClient
    \/ ClientDownloadImage
    \/ ExecuteStep(Uploader)
    \/ ClientDownloadReturn

SpecClient == InitSpecClient /\ [][NextClient]_vars

(***************************************************************************)
(* Claims about get_preferred_client                                       *)
(***************************************************************************)

\* get_preferred_client has returned (or panicked).
FactoryReturned == k_pc # "get_client"

\* C11: when the credentials hold neither a token nor an API key,
\* get_preferred_client fails with MissingAuth whatever user_id and group_id
\* are: no constructor is called, no client exists and no request was sent.
C11_MissingAuthWithoutCredential ==
    (FactoryReturned /\ ~k_creds.token.some /\ ~k_creds.api_key.some)
        => /\ k_client = Err(MissingAuth)
           /\ k_selected = "none"
           /\ k_net = <<>>
           /\ csrf_token = None

\* C11 witness: MissingAuth for credentials that carry both creator ids but
\* neither a token nor a key.
C11_Witness ==
    /\ FactoryReturned
    /\ k_creds = RobloxCredentials(None, None, Some(1), Some(2))
    /\ k_client = Err(MissingAuth)

\* C12: the key-scheme constructor is the one called exactly when an API key
\* is present (a token may be present too), the cookie-scheme constructor
\* exactly when a token is present and no API key is, and a client that was
\* built is of the variant selected.
C12_KeyTakesPrecedence ==
    FactoryReturned
        => /\ (k_selected = "OpenCloud") <=> k_creds.api_key.some
           /\ (k_selected = "Legacy")
                  <=> (k_creds.token.some /\ ~k_creds.api_key.some)
           /\ k_client.ok => k_client.val.variant = k_selected

\* C12 witness: a key-scheme client built from credentials that hold a token
\* as well as a key.
C12_Witness ==
    /\ FactoryReturned
    /\ k_creds.token.some
    /\ k_creds.api_key.some
    /\ k_selected = "OpenCloud"
    /\ k_client.ok
    /\ k_client.val.variant = "OpenCloud"

\* The error value the claim names; RobloxApiError has no such variant.
AmbiguousCreatorType ==
    [type |-> "RobloxApiError", kind |-> "AmbiguousCreatorType"]

\* C14: building the key-scheme client from credentials with both user_id
\* and group_id set returns the error AmbiguousCreatorType to the caller.
C14_BothCreatorsRejected ==
    (FactoryReturned /\ k_creds.api_key.some /\ k_creds.user_id.some
                     /\ k_creds.group_id.some)
        => k_client = Err(AmbiguousCreatorType)

(***************************************************************************)
(* Specification of the commands that use a client                         *)
(***************************************************************************)
InitSpecCommand ==
    IdleRetry /\ IdleCsrf /\ IdleUpload /\ InitCommand /\ IdleStore /\ IdleResolver

NextCommand ==
    \/ BuildCredentials
    \/ GetClient
    \/ UploadImageCall
    \/ UploadLegacy
    \/ UploadLegacyResponse
    \/ UploadOpenCloud
    \/ PollOperation
    \/ PollSleep
    \/ UploadImageReturn
    \/ DownloadImageCall
    \/ DownloadImageStore
    \/ ExecuteStep(Uploader)
    \/ CacheMapReadManifest
    \/ CacheMapCreateDirs
    \/ CacheMapIndexUnique
    \/ CacheMapDownload
    \/ CacheMapStore
    \/ CacheMapWriteIndex
    \/ AssetList
    \/ Sync
    \/ MainExit
    \/ CtrlC

SpecCommand == InitSpecCommand /\ [][NextCommand]_vars

(***************************************************************************)
(* Claims about the commands' credentials                                  *)
(***************************************************************************)

\* C13: every credentials value a command hands to get_preferred_client has
\* at most one of token and api_key present, for every combination of
\* --auth, the API key option or environment variable, and a discovered
\* cookie.
C13_TokenXorApiKey ==
    k_creds # None => ~(k_creds.token.some /\ k_creds.api_key.some)

(***************************************************************************)
(* Claims about create_cache_map                                           *)
(***************************************************************************)

\* The ids of the manifest by their number of contributing inputs.
Contributors(id) == {n \in AssetNames : manifest[n] = Some(id)}
SharedIds == {id \in InputIds : Cardinality(Contributors(id)) >= 2}
UniqueIds == {id \in InputIds : Cardinality(Contributors(id)) = 1}

\* The download_image calls of the run, in order.
Downloads == SelectSeq(k_net, LAMBDA r : r.req = "download_image")
DownloadsOf(id) == {i \in 1..Len(Downloads) : Downloads[i].id = id}

CacheMapSucceeded ==
    /\ k_cmd = "create_cache_map"
    /\ k_pc = "done"
    /\ k_result = Ok(Unit)

\* The path is <cache_dir>/<id in decimal>: the cache directory, then digits
\* without sign or leading zero that read back as id.
IsCachePathOf(path, id) ==
    /\ Len(path) >= 3
    /\ SubSeq(path, 1, 2) = <<CacheDir, "/">>
    /\ path[3] \notin {"+", "0"}
    /\ ParseU64(SubSeq(path, 3, Len(path))) = Ok(id)

\* C19: create_cache_map downloads only ids shared by two or more inputs and
\* none of them twice; a run that succeeds has downloaded every shared id
\* exactly once, as many downloads as there are shared ids, holds one cache
\* file per shared id, and its index maps each shared id to
\* <cache_dir>/<id in decimal>.
C19_SharedIdFetchedOnce ==
    k_cmd = "create_cache_map"
        => /\ \A i \in 1..Len(Downloads) :
                  /\ Downloads[i].id \in SharedIds
                  /\ DownloadsOf(Downloads[i].id) = {i}
           /\ CacheMapSucceeded
                  => /\ Len(Downloads) = Cardinality(SharedIds)
                     /\ \A id \in SharedIds :
                            /\ Cardinality(DownloadsOf(id)) = 1
                            /\ IsCachePathOf(k_index_file.v.entries[id], id)
                            /\ \E f \in k_files :
                                   f.path = k_index_file.v.entries[id]

\* C19 witness: a successful run over a manifest in which three inputs share
\* id 14: one download, and the index maps 14 to cache/14.
C19_Witness ==
    /\ CacheMapSucceeded
    /\ manifest = [n \in AssetNames |-> IF n = "d" THEN None ELSE Some(14)]
    /\ Downloads = <<DownloadRequest(14)>>
    /\ k_index_file.v.entries[14] = <<"cache", "/", "1", "4">>

\* An id with exactly one contributor is never downloaded, has no cache
\* file, and the index maps it to the contributor's name.
UniqueIdsIndexedByName ==
    \A id \in UniqueIds :
        /\ DownloadsOf(id) = {}
        /\ \A f \in k_files : ~IsCachePathOf(f.path, id)
        /\ id \in DOMAIN k_index
               => \E n \in Contributors(id) : k_index[id] = <<n>>
        /\ CacheMapSucceeded
               => \E n \in Contributors(id) :
                      k_index_file.v.entries[id] = <<n>>

\* C20 as stated: an id of exactly one input causes no fetch and no cache
\* file and is indexed by the input's name, and a run over a manifest
\* without shared ids makes no network request at all.
C20_NoRequestWithoutSharedIds ==
    k_cmd = "create_cache_map"
        => /\ UniqueIdsIndexedByName
           /\ SharedIds = {} => k_net = <<>>

\* C20 amended: the same, except that the run over a manifest without
\* shared ids makes no download and writes no cache file; the one request it
\* makes is the CSRF token request of the client's construction.
C20_NoDownloadWithoutSharedIds ==
    k_cmd = "create_cache_map"
        => /\ UniqueIdsIndexedByName
           /\ SharedIds = {}
                  => /\ Downloads = <<>>
                     /\ k_files = {}
                     /\ k_net \in {<<>>, <<CsrfTokenRequest>>}

\* C20 witness: a successful run over a manifest whose two ids have one
\* input each: the index maps 7 to "a" and 14 to "b", and the only request
\* was the CSRF token request.
C20_Witness ==
    /\ CacheMapSucceeded
    /\ manifest = [n \in AssetNames |->
                     IF n = "a" THEN Some(7)
                     ELSE IF n = "b" THEN Some(14) ELSE None]
    /\ k_index_file.v.entries[7] = <<"a">>
    /\ k_index_file.v.entries[14] = <<"b">>
    /\ k_files = {}
    /\ k_net = <<CsrfTokenRequest>>

\* The ids present on the inputs of the manifest.
PresentIds == {id \in InputIds : Contributors(id) # {}}

\* C21: when create_cache_map succeeds, the keys of the written index are
\* exactly the ids present on manifest inputs, each written once, and the
\* entries are written in ascending order of id.
C21_IndexKeysAscending ==
    CacheMapSucceeded
        => LET file == k_index_file.v
           IN /\ file.complete
              /\ DOMAIN file.entries = PresentIds
              /\ Len(file.order) = Cardinality(PresentIds)
              /\ {file.order[i] : i \in 1..Len(file.order)} = PresentIds
              /\ \A i \in 1..Len(file.order) - 1 :
                     file.order[i] < file.order[i + 1]

\* C21 witness: a successful run over a manifest with ids 14 (on two inputs)
\* and 7 (on one) and an input without id: the index holds 7, then 14.
C21_Witness ==
    /\ CacheMapSucceeded
    /\ manifest = [n \in AssetNames |->
                     IF n \in {"a", "c"} THEN Some(14)
                     ELSE IF n = "b" THEN Some(7) ELSE None]
    /\ k_index_file.v.order = <<7, 14>>
    /\ DOMAIN k_index_file.v.entries = {7, 14}

(***************************************************************************)
(* asset_list                                                              *)
(***************************************************************************)

AssetListSucceeded ==
    k_cmd = "asset_list" /\ k_pc \in {"done", "exited"} /\ k_result = Ok(Unit)

\* The contents of the output file.
OutputFile == (CHOOSE f \in k_files : f.path = OutputPath).contents

\* C22: asset_list builds no credentials and no client and sends no request;
\* when it succeeds the output file holds one canonical decimal line per id
\* present on an input of the manifest, each id once, in strictly ascending
\* order.
C22_AssetListWritesPresentIds ==
    k_cmd = "asset_list" =>
        /\ k_creds = None /\ k_selected = "none" /\ k_client = NoResult
        /\ k_net = <<>>
        /\ \A c \in Calls : c_pc[c] = "idle"
        /\ AssetListSucceeded =>
             /\ \E f \in k_files : f.path = OutputPath
             /\ \A f \in k_files : f.path = OutputPath
             /\ LET lines == OutputFile.lines
                IN /\ Len(lines) = Cardinality(PresentIds)
                   /\ \A i \in 1..Len(lines) :
                        /\ lines[i] # <<>>
                        /\ Head(lines[i]) # "+"
                        /\ Len(lines[i]) > 1 => Head(lines[i]) # "0"
                        /\ ParseU64(lines[i]).ok
                        /\ ParseU64(lines[i]).val \in PresentIds
                   /\ \A i, j \in 1..Len(lines) :
                        i < j => ParseU64(lines[i]).val < ParseU64(lines[j]).val

\* Two inputs share id 14, one has id 7, one has none: the file is 7, 14.
C22_Witness ==
    /\ AssetListSucceeded
    /\ manifest = [n \in AssetNames |->
                     IF n \in {"a", "c"} THEN Some(14)
                     ELSE IF n = "b" THEN Some(7) ELSE None]
    /\ OutputFile.lines = << <<"7">>, <<"1", "4">> >>

(***************************************************************************)
(* main                                                                    *)
(***************************************************************************)

CommandFailed == k_result # NoResult /\ ~k_result.ok

\* C29: once the process has exited after the command returned an error,
\* the error was reported and the status is not 0; a status of 0 is reached
\* only when the command returned Ok or had not returned.
C29_FailedCommandExitsNonZero ==
    k_exit.some =>
        /\ CommandFailed => /\ k_exit.v.status # 0
                            /\ k_exit.v.reported = k_result
        /\ k_exit.v.status = 0 => (k_result = NoResult \/ k_result.ok)

\* sync, which always fails, has exited with status 1.
C29_Witness ==
    /\ k_cmd = "sync"
    /\ k_exit = Some([status |-> 1,
                      reported |-> Err([type |-> "anyhow::Error",
                                        message |-> "unfinished"])])

(***************************************************************************)
(* Specification of the manifest store: a run finds a manifest file, reads *)
(* it, writes a manifest and reads it back                                 *)
(***************************************************************************)
InitSpecManifest ==
    /\ IdleRetry /\ IdleCsrf /\ IdleUpload /\ IdleCommand /\ IdleResolver
    /\ m_old \in StoredFiles
    /\ m_file = m_old
    /\ m_arg \in StoreManifests
    /\ m_pc = "start"
    /\ m_result = NoResult

NextManifest ==
    \/ ReadFromFolder
    \/ WriteSerialize
    \/ WriteCreate
    \/ WriteAll
    \/ Interrupt

SpecManifest == InitSpecManifest /\ [][NextManifest]_vars

\* A read_from_folder has returned, and the file is as it read it.
ReadReturned == m_pc \in {"loaded", "reread"}

\* C23: read_from_folder fails with an error for which is_not_found() holds
\* when there is no manifest file; when it fails on a file that is there,
\* is_not_found() does not hold; and it returns a Manifest only for a file
\* that is, line for line, what that Manifest serializes to, so that content
\* which is no Manifest's is an error and never an empty or partial Manifest.
C23_ReadFailsOnAbsentOrMalformed ==
    ReadReturned =>
        /\ ~m_file.some => (~m_result.ok /\ IsNotFound(m_result.err))
        /\ (m_file.some /\ ~m_result.ok)
              => /\ m_result.err.variant \in {"DeserializeToml", "Io"}
                 /\ ~IsNotFound(m_result.err)
        /\ m_result.ok => (m_file.some /\ TomlToVec(m_result.val) = m_file.v)

\* An empty file has been read: it is TOML, and no Manifest.
C23_Witness ==
    /\ ReadReturned
    /\ m_file = Some(<<>>)
    /\ m_result = Err(ManifestErrorOf("DeserializeToml", "data"))
    /\ ~IsNotFound(m_result.err)

\* C24: a Manifest that write_to_folder has written is what
\* read_from_folder then returns, and the file holds that Manifest only.
C24_RoundTrip ==
    (m_pc = "reread" /\ (m_result.ok \/ m_result.err.variant # "Io"))
        => /\ m_result = Ok(m_arg)
           /\ m_file = Some(TomlToVec(m_arg))

\* C25: when the process has been ended from outside, the manifest file is
\* the one the run found or the new manifest, whole.
C25_InterruptLeavesWholeManifest ==
    m_pc = "killed" => (m_file = m_old \/ m_file = Some(TomlToVec(m_arg)))

(***************************************************************************)
(* Specification of resolve_web_asset_id over the event streams            *)
(***************************************************************************)
InitSpecResolver ==
    /\ IdleRetry /\ IdleCsrf /\ IdleUpload /\ IdleCommand /\ IdleStore
    /\ x_id \in {7, 9}
    /\ x_events \in EventStreams
    /\ x_pos = 0
    /\ x_pc = "call"
    /\ x_result = NoResult

NextResolver ==
    \/ ResolveEnter
    \/ ResolveLoop

SpecResolver == InitSpecResolver /\ [][NextResolver]_vars

\* The function blocks on nothing but its request, which is answered: it
\* takes every step it can take.
FairSpecResolver ==
    SpecResolver /\ WF_vars(ResolveEnter) /\ WF_vars(ResolveLoop)

\* The function has returned, and not with the error of its request.
Resolved == x_pc = "done" /\ x_result # Err(HttpError)

\* The events say that the body was a whole XML document.
WellFormed ==
    /\ x_events[1].e = "StartDocument"
    /\ x_events[Len(x_events)].e = "EndDocument"

\* C26: when the first event is not StartDocument the function returns its
\* input id, and no error.
C26_NotXmlReturnsInputId ==
    (Resolved /\ x_events[1].e # "StartDocument") => x_result = Ok(x_id)

\* The body was not XML at all.
C26_Witness ==
    /\ Resolved
    /\ x_events = <<[e |-> "Error"]>>
    /\ x_id = 9
    /\ x_result = Ok(9)

\* The root element, and the text of the url element if it has one.
RootName == x_events[CHOOSE i \in 1..Len(x_events) :
                        /\ x_events[i].e = "StartElement"
                        /\ \A j \in 1..(i - 1) : x_events[j].e # "StartElement"].name

UrlTexts ==
    {x_events[i + 1].text : i \in {j \in 1..(Len(x_events) - 1) :
        /\ x_events[j].e = "StartElement" /\ x_events[j].name = "url"
        /\ x_events[j + 1].e = "Characters"}}

\* The characters after the first prefix of a text.
AfterPrefix(text) ==
    SubSeq(text, 1 + (CHOOSE i \in 1..Len(text) :
                        /\ text[i] = AssetUrlPrefix
                        /\ \A j \in 1..(i - 1) : text[j] # AssetUrlPrefix),
           Len(text))

\* C27: for a well-formed document the function returns an error when the
\* root is not roblox, when the url text has no prefix, and when what comes
\* after the prefix is no unsigned integer.
C27_UnexpectedXmlIsAnError ==
    (Resolved /\ WellFormed)
        => /\ RootName # "roblox" => ~x_result.ok
           /\ \A text \in UrlTexts :
                (\/ \A i \in 1..Len(text) : text[i] # AssetUrlPrefix
                 \/ ~ParseU64(AfterPrefix(text)).ok)
                    => ~x_result.ok

\* The descriptors: a roblox root, possibly another element, and a url
\* element whose text is the prefix and the digits of a number.
DescriptorId ==
    IF /\ WellFormed
       /\ x_events[2] = [e |-> "StartElement", name |-> "roblox"]
       /\ \E text \in UrlTexts :
            /\ text[1] = AssetUrlPrefix
            /\ Len(text) > 1
            /\ \A i \in 2..Len(text) : Digit(text[i]) >= 0
      THEN Some(DigitsValue(Tail(CHOOSE text \in UrlTexts : TRUE), 0))
      ELSE None

\* C28: for a descriptor with the id N the function returns N, whatever its
\* input id.
C28_DescriptorResolves ==
    (Resolved /\ DescriptorId.some) => x_result = Ok(DescriptorId.v)

\* The id 42 was resolved for the input 7, past another element.
C28_Witness ==
    /\ Resolved
    /\ x_id = 7
    /\ DescriptorId = Some(42)
    /\ x_events[3] = [e |-> "StartElement", name |-> "Meta"]
    /\ x_result = Ok(42)

(***************************************************************************)
(* OpenCloudClient::download_image                                         *)
(***************************************************************************)

\* The requests of one kind among those sent so far.
Sent(req) == {i \in 1..Len(k_net) : k_net[i].req = req}

KeySchemeClient ==
    k_cmd = "none" /\ k_client.ok /\ k_client.val.variant = "OpenCloud"

\* C30: every download_image of the key-scheme client builds a cookie-scheme
\* client of its own from the client's credentials (with a session token
\* each one asks for a CSRF token, without one none does), the download is
\* sent also when there is no token, then without a cookie header, and it
\* never returns MissingAuth.
C30_KeySchemeDownloadDelegates ==
    KeySchemeClient =>
        /\ Cardinality(Sent("download_image")) = c_calls[Uploader]
        /\ Cardinality(Sent("get_csrf_token")) =
               IF k_creds.token.some THEN c_calls[Uploader] ELSE 0
        /\ c_calls[Uploader] > 0 => cred_token = k_client.val.credentials.token
        /\ k_client.val.credentials = k_creds
        /\ \A i \in 1..Len(c_sent[Uploader]) :
               c_sent[Uploader][i].cookie = k_creds.token
        /\ k_result # Err(MissingAuth)
        /\ c_result[Uploader] # Err(MissingAuth)

\* Two downloads of a key-scheme client without a token have returned, the
\* second with the server's answer to a request without cookie.
C30_Witness ==
    /\ KeySchemeClient
    /\ ~k_creds.token.some
    /\ c_calls[Uploader] = 2
    /\ k_pc = "client"
    /\ k_result.ok
    /\ c_sent[Uploader] # <<>>
    /\ c_sent[Uploader][1].cookie = None
    /\ Sent("get_csrf_token") = {}

(***************************************************************************)
(* The token lock under concurrent calls                                   *)
(***************************************************************************)

\* C31: with every request answered and every task polled, a call of
\* execute_with_csrf_retry that has started returns.
C31_EveryCallCompletes ==
    \A c \in Calls : [](c_pc[c] \notin {"idle", "done"} => <>(c_pc[c] = "done"))

\* A step changes the cached token only to the X-CSRF-Token header of a 403
\* response some call has received, and never to none.
TokenFromA403 ==
    csrf_token' # csrf_token
        => /\ csrf_token'.some
           /\ \E c \in Calls : /\ FirstIs403WithToken(c)
                               /\ csrf_token' = c_resp[c][1].csrf

\* A step that attaches headers puts the token cached at that moment on the
\* request, or no token header when none is cached, and a step that sends
\* sends the request as it was left.
SentWithCachedToken ==
    \A c \in Calls :
        /\ (c_pc[c] \in {"attach", "attach_retry"} /\ c_pc'[c] # c_pc[c])
              => c_request'[c].csrf = csrf_token
        /\ Len(c_sent'[c]) = Len(c_sent[c]) + 1
              => c_sent'[c][Len(c_sent'[c])] = c_request[c]

\* C32: under every interleaving the cached token is its value at
\* construction or the header of a 403 response received, it is never
\* cleared, and every request carries the token cached when its headers
\* were attached.
C32_TokenIsConstructionOr403 ==
    [][TokenFromA403 /\ SentWithCachedToken]_vars

\* One call has sent its request with the token of construction, and the
\* token is now the header of a 403 another call received.
C32_Witness ==
    /\ c_sent["c2"] = <<[cookie |-> cred_token, csrf |-> Some(StartToken)]>>
    /\ FirstIs403WithToken("c1")
    /\ csrf_token = c_resp["c1"][1].csrf
    /\ csrf_token # Some(StartToken)

(***************************************************************************)
(* The poll loop's budget                                                  *)
(***************************************************************************)

\* The loop has made at most 7 polls and 6 sleeps, the k-th sleep of
\* 50 ms * k^2; only a pending poll is followed by another; a poll that
\* failed in transport has ended the loop with its error; and after the 7th
\* poll the loop is left.
PollBudget ==
    /\ Len(u_polls) <= 7
    /\ Len(u_sleeps) <= 6
    /\ u_sleeps = [k \in 1..Len(u_sleeps) |-> 50 * k * k]
    /\ \A i \in 1..(Len(u_polls) - 1) : u_polls[i].kind = "pending"
    /\ u_pc \in {"poll", "sleep"} => Len(u_polls) < 7
    /\ (u_polls # <<>> /\ u_polls[Len(u_polls)].kind = "error")
          => /\ u_pc \in {"match", "done"}
             /\ u_client = Err(QuestionMark(u_polls[Len(u_polls)].err))

\* C33: the poll loop stays within 7 polls and 6 sleeps, a transport error
\* ends it at once, and a loop that was entered is left, with an id or an
\* error.
C33_PollLoopTerminates ==
    /\ []PollBudget
    /\ (u_pc = "poll") ~> (u_pc \in {"match", "done"} /\ u_client # NoResult)

\* Six pending polls and six sleeps, and a seventh poll that is answered.
C33_Witness ==
    /\ Len(u_polls) = 7
    /\ u_sleeps = <<50, 200, 450, 800, 1250, 1800>>
    /\ u_polls[7] = Completed(<<"7">>)
    /\ u_client = Ok(ApiUploadResponse(7, 7))

(***************************************************************************)
(* The sleeps of RetryBackend::upload                                      *)
(***************************************************************************)

\* C34: what a call of RetryBackend::upload does is a wrapped upload, then
\* a sleep and a wrapped upload for every further attempt: every sleep is
\* of length delay and stands directly before an attempt that is not the
\* first, and a call that has returned after k wrapped uploads has slept
\* k - 1 times, not before the first and not after the last.
C34_ConstantSleepBetweenAttempts ==
    /\ \A i \in 1..Len(r_events) :
         IF i % 2 = 1 THEN r_events[i].ev = "upload"
         ELSE r_events[i] = SleepEvent(delay)
    /\ r_pc = "return"
          => /\ r_events # <<>>
             /\ r_events[Len(r_events)].ev = "upload"
             /\ Len(InnerSleeps) = Len(InnerUploads) - 1

\* Three attempts with two sleeps of 2 ms between them, the third a success.
C34_Witness ==
    /\ r_pc = "return"
    /\ delay = 2
    /\ r_events = <<UploadEvent(Err(RateLimited)), SleepEvent(2),
                    UploadEvent(Err(RateLimited)), SleepEvent(2),
                    UploadEvent(Ok(SyncUploadResponse(10)))>>

(***************************************************************************)
(* The factory on every combination of credentials                         *)
(***************************************************************************)

\* C35: for every combination of token, API key, user id and group id,
\* get_preferred_client returns a client or an error value; the process is
\* never aborted.
C35_FactoryNeverAborts ==
    FactoryReturned
        => /\ k_pc # "panicked"
           /\ k_client # Err(Panicked)
           /\ k_client.ok \/ k_client.err.type = "RobloxApiError"

(***************************************************************************)
(* Termination of resolve_web_asset_id                                     *)
(***************************************************************************)

\* C36: resolve_web_asset_id returns for every response body, also for a
\* document with root roblox that has no url element.
C36_ResolverTerminates == <>(x_pc = "done")


(***************************************************************************)
(* create_cache_map: the index file is written last                        *)
(***************************************************************************)

\* The cache file of id holds what the download of id returned.
CacheFileWritten(id) ==
    \E f \in k_files : f.path = CachePath(id) /\ f.contents.asset = id

\* A step that creates or changes the index file is taken with the loop
\* finished: every shared id was downloaded and has its cache file.
IndexWrittenAfterDownloads ==
    k_index_file' # k_index_file
        => /\ k_cmd = "create_cache_map"
           /\ k_todo = <<>>
           /\ \A id \in SharedIds :
                  /\ DownloadsOf(id) # {}
                  /\ CacheFileWritten(id)
                  /\ k_index[id] = CachePath(id)

\* A turn of the loop that fails ends the command with the error of
\* download_image (the error of the request or of reading its body) or of
\* fs::write, and leaves the index file as it was.
FailedTurnReturnsItsError ==
    (k_cmd = "create_cache_map" /\ k_pc = "download" /\ k_pc' = "done")
        => /\ ~k_result'.ok
           /\ k_result' \in {c_result[Uploader], Err(HttpError), Err(StdIoError)}
           /\ ~c_result[Uploader].ok => k_result' = c_result[Uploader]
           /\ k_index_file' = k_index_file

\* No download starts before both directories exist.
DirsBeforeDownloads ==
    (k_cmd = "create_cache_map" /\ Downloads # <<>>)
        => {"index_dir", "cache_dir"} \subseteq k_dirs

\* A run that ended in an error inside the loop has the index file it
\* started with.
StoppedInLoop ==
    /\ k_cmd = "create_cache_map"
    /\ k_pc \in {"done", "exited"}
    /\ k_todo # <<>>

\* C37: create_cache_map writes the index file only after every required
\* download has succeeded and its cache file is written; if a download or a
\* cache-file write fails, the command returns that error and the index
\* file is neither created nor modified; both directories are created
\* before the first download.
C37_IndexWrittenLast ==
    /\ [][IndexWrittenAfterDownloads /\ FailedTurnReturnsItsError]_vars
    /\ [](DirsBeforeDownloads /\ (StoppedInLoop => ~k_result.ok))

\* C37 witness: over a manifest where a and b share id 7 and c and d share
\* id 14, the download of 7 succeeded and cache/7 is written, the download
\* of 14 failed, the command returned that error, and the index file of the
\* earlier run is still there.
C37_Witness ==
    /\ k_cmd = "create_cache_map"
    /\ k_pc = "done"
    /\ manifest = [n \in AssetNames |->
                     IF n \in {"a", "b"} THEN Some(7) ELSE Some(14)]
    /\ Downloads = <<DownloadRequest(7), DownloadRequest(14)>>
    /\ CacheFileWritten(7)
    /\ ~CacheFileWritten(14)
    /\ k_todo = <<14>>
    /\ ~c_result[Uploader].ok
    /\ k_result = c_result[Uploader]
    /\ k_dirs = {"index_dir", "cache_dir"}
    /\ k_index_file = Some(OldIndex)


(***************************************************************************)
(* create_cache_map: one download at a time, in the order of the ids       *)
(***************************************************************************)

\* A step that sends a download request sends one, for an id greater than
\* every id downloaded before; the call of every earlier download has
\* returned and its cache file is written.
DownloadStartsAlone ==
    (k_cmd = "create_cache_map" /\ Downloads' # Downloads)
        => /\ Len(Downloads') = Len(Downloads) + 1
           /\ SubSeq(Downloads', 1, Len(Downloads)) = Downloads
           /\ k_pc = "loop"
           /\ c_pc[Uploader] \in {"idle", "done"}
           /\ \A i \in 1..Len(Downloads) :
                  /\ Downloads[i].id < Downloads'[Len(Downloads')].id
                  /\ CacheFileWritten(Downloads[i].id)

\* The downloads made so far are in strictly ascending order of their ids,
\* and only the last of them can be without its cache file.
DownloadsAscending ==
    k_cmd = "create_cache_map"
        => \A i, j \in 1..Len(Downloads) :
               i < j => /\ Downloads[i].id < Downloads[j].id
                        /\ CacheFileWritten(Downloads[i].id)

\* C38: create_cache_map performs its downloads one at a time in strictly
\* ascending order of the ids: the cache file of one id is completely
\* written before the download of the next id starts, and no two downloads
\* are in flight together.
C38_OneDownloadAtATime ==
    [][DownloadStartsAlone]_vars /\ []DownloadsAscending

\* C38 witness: over a manifest where c and d share id 7 and a and b share
\* id 14, the download of 14 is in flight, the one of 7 came first and
\* cache/7 is written.
C38_Witness ==
    /\ k_cmd = "create_cache_map"
    /\ k_pc = "download"
    /\ manifest = [n \in AssetNames |->
                     IF n \in {"a", "b"} THEN Some(14) ELSE Some(7)]
    /\ Downloads = <<DownloadRequest(7), DownloadRequest(14)>>
    /\ c_pc[Uploader] \notin {"idle", "done"}
    /\ CacheFileWritten(7)
    /\ ~CacheFileWritten(14)


(***************************************************************************)
(* The commands and the manifest                                           *)
(***************************************************************************)

\* No step of a command changes the manifest of the project folder.
ManifestUntouched == manifest' = manifest /\ m_file' = m_file

\* sync makes no request, starts no upload, writes no file, and what it
\* returns is the error "unfinished".
SyncOnlyFails ==
    k_cmd = "sync"
        => /\ k_net = <<>>
           /\ k_creds = None
           /\ k_client = NoResult
           /\ u_pc = "idle"
           /\ \A c \in Calls : c_calls[c] = 0 /\ c_pc[c] = "idle"
           /\ k_files = {}
           /\ k_pc \in {"done", "exited"}
                  => k_result = Err([type |-> "anyhow::Error",
                                     message |-> "unfinished"])

====
